---- MODULE Spec2Model ----
(***************************************************************************)
(* tf-mirror downloader: the acquisition cycle of internal/downloader.     *)
(*                                                                         *)
(* One provider (namespace/name fixed) is mirrored.  A job is a pair      *)
(* <<version, platform>>.  The store holds, per job, the archive under its *)
(* final name and the file "<archive>.tmp"; per version the document       *)
(* "<version>.json"; "index.json"; and the journal file.                   *)
(*                                                                         *)
(* The orchestrator (downloadProviders, called in a loop by                *)
(* StartWithContext) and the download workers are separate processes.      *)
(* Every first-pass worker pool has its own jobs and results channels; a   *)
(* pool outlives its cycle for as long as one of its workers still holds a *)
(* job, because downloadProviders never waits for its workers.             *)
(***************************************************************************)
EXTENDS Integers, Sequences, FiniteSets, TLC

\* ------------------------------------------------------------------ bounds
MaxVersions == 1
MaxPlatforms == 2
MaxConcurrent == 2
MaxCycles == 2
MaxAttemptsBound == 2
MaxCrashes == 1
FairCycles == 1

Versions == 1..MaxVersions
Platforms == 1..MaxPlatforms
Jobs == Versions \X Platforms
NoJob == <<0, 0>>
Workers == 1..MaxConcurrent

\* Pools of workers.  The first pass of cycle c runs in pool A (c odd) or
\* B (c even); the retry pass runs in pool R.
Pools == {"A", "B", "R"}

\* ------------------------------------------------------------ file content
\* "absent": no such file; "partial": created, body not completely
\* written; "full": a complete non-empty body; "empty": a complete body of
\* zero bytes.
Bodies == {"full", "empty"}
Content == {"absent", "partial"} \cup Bodies

\* SHA-256 of a complete body.
Sha(c) == IF c = "full" THEN "H" ELSE "E"

\* Shasum advertised by upstream for a package: none, the hash of the
\* non-empty body, or a hash no body served has.
Shasums == {"", "H", "X"}

\* Error of one attempt as the code can tell it apart:
\*   "nil"     no error
\*   "timeout" the error text contains timeout / Client.Timeout / deadline
\*   "late"    another error text, returned after the attempt's deadline
\*             had expired (ctx.Err() = DeadlineExceeded)
\*   "other"   any other error
Errors == {"nil", "timeout", "late", "other"}
Failures == Errors \ {"nil"}
NonTimeouts == {"other", "late"}

VARIABLES
  maxAttempts,   \* config.MaxAttempts
  maxConcurrent, \* config.MaxConcurrent
  platformFilter,\* config.PlatformFilter as a set; {} when not enabled
  unpublished,   \* jobs whose package request upstream answers with 404
  stopAfter,     \* cycles the run sees at most (the first and one per tick)
  ctxDone,       \* the context given to StartWithContext is cancelled
  ret,           \* what StartWithContext returned; "none" while it runs
  fn,            \* the parsing or filtering function under study, or "none"
  arg,           \* its input
  res,           \* its result once it was applied
  called,        \* it was applied
  cycle,         \* number of downloadProviders calls started so far
  crashes,       \* number of process crashes so far
  opc,           \* position of the orchestrator
  archive,       \* [Jobs -> Content]   file under its final name
  temp,          \* [Jobs -> Content]   "<archive>.tmp"
  versionJson,   \* [Versions -> document listing os_arch keys]
  indexJson,     \* document listing versions
  journal,       \* s.metadata.Providers[ns/name] in memory
  journalFile,   \* .tf-mirror-metadata.json
  pool,          \* [Pools -> [jobs, results, w]]
  firstPool,     \* pool of the current cycle's first pass
  i,             \* loop counter of the result-collection loop
  totalJobs,
  resultsSent,
  timeoutJobs,   \* retry batch (sequence of jobs)
  failedJobs,    \* set of jobs
  retryI,        \* loop counter of the retry collection loop
  taken,         \* history: [Pools -> [Jobs -> times taken by a worker]]
  sent,          \* history: [Pools -> [Jobs -> results sent]]
  reported,      \* history: [Pools -> [Jobs -> last outcome sent or "none"]]
  listed         \* history: versions upstream listed to the current cycle

diskVars == <<archive, temp, versionJson, indexJson, journalFile>>
orchVars == <<cycle, opc, firstPool, i, totalJobs, resultsSent,
              timeoutJobs, failedJobs, retryI>>
histVars == <<taken, sent, reported, listed>>
confVars == <<maxAttempts, maxConcurrent, platformFilter, unpublished,
              stopAfter>>
ctxVars == <<ctxDone, ret>>
callVars == <<fn, arg, res, called>>
vars == <<confVars, ctxVars, callVars, crashes, diskVars, journal, pool, orchVars, histVars>>

\* ------------------------------------------------------------------ helpers
\* Order of jobs in the job list and of archives in a directory listing.
JobLeq(a, b) == a[1] < b[1] \/ (a[1] = b[1] /\ a[2] <= b[2])

RECURSIVE SetToSeq(_)
SetToSeq(S) ==
  IF S = {} THEN <<>>
  ELSE LET m == CHOOSE x \in S : \A y \in S : JobLeq(x, y)
       IN <<m>> \o SetToSeq(S \ {m})

RECURSIVE SelectSeqJobs(_, _)
SelectSeqJobs(s, keep) ==
  IF s = <<>> THEN <<>>
  ELSE (IF keep[Head(s)] THEN <<Head(s)>> ELSE <<>>) \o SelectSeqJobs(Tail(s), keep)

Range(s) == {s[k] : k \in 1..Len(s)}

\* A worker: where it is, its job, the number of its attempt, the checksum
\* upstream gave, where its open file is linked, and (between two attempts)
\* the err the attempt before returned.
IdleWorker ==
  [pc |-> "idle", job |-> NoJob, attempt |-> 0, sh |-> "", fd |-> "none",
   err |-> "nil"]
Attempting(job, n) ==
  [pc |-> "begin", job |-> job, attempt |-> n, sh |-> "", fd |-> "none",
   err |-> "nil"]
EmptyPool == [jobs |-> <<>>, results |-> <<>>, cap |-> 0,
              w |-> [x \in Workers |-> IdleWorker]]
\* An index document: present or not, and the keys it lists ("archives" of
\* "<version>.json", "versions" of index.json).
NoDoc == [exists |-> FALSE, keys |-> {}]
Doc(S) == [exists |-> TRUE, keys |-> S]

EmptyJournal == [present |-> FALSE, versions |-> {}, platforms |-> {}]
ZeroCount == [p \in Pools |-> [j \in Jobs |-> 0]]
NoOutcome == [p \in Pools |-> [j \in Jobs |-> "none"]]

\* A pool no worker of which holds a job and whose jobs channel is drained.
Quiescent(p) ==
  /\ pool[p].jobs = <<>>
  /\ \A x \in Workers : pool[p].w[x].pc = "idle"

FirstPoolOf(c) == IF c % 2 = 1 THEN "A" ELSE "B"

\* fileExists
fileExists(c) == c # "absent"

\* Size() = 0 of an existing file
IsZeroSize(c) == c = "empty"

\* Service.verifyChecksum
verifyChecksum(c, expectedChecksum) ==
  IF expectedChecksum = "" THEN fileExists(c)
  ELSE IF ~fileExists(c) THEN FALSE
  ELSE IF IsZeroSize(c) THEN FALSE
  ELSE TRUE

\* isTimeoutError: looks at the error text only
isTimeoutError(err) == err = "timeout"

\* the worker's test: ctx.Err() == DeadlineExceeded || isTimeoutError(err)
WorkerSeesTimeout(err) == err = "late" \/ isTimeoutError(err)

\* Outcome of a DownloadResult
Outcome(err, skipped) ==
  IF err # "nil" THEN (IF isTimeoutError(err) THEN "FailedTimeout" ELSE "FailedOther")
  ELSE IF skipped THEN "Skipped" ELSE "Ok"

\* PlatformFilter.ShouldInclude: a filter that is not enabled includes all.
ShouldInclude(f, platform) == f = {} \/ platform \in f

\* Service.updateMetadata
updateMetadata(jr, job) ==
  [present |-> TRUE,
   versions |-> jr.versions \cup {job[1]},
   platforms |-> jr.platforms \cup {job[2]}]

\* shouldDownload without the scan of the provider directory.
shouldDownloadUnscanned(jr, arch, tmp, job) ==
  ShouldInclude(platformFilter, job[2])

\* Service.shouldDownload (both filters include the provider and platform).
\* The directory scan matches every entry whose name begins with
\* terraform-provider-<name>_<version>_<os>_<arch>: the archive and its .tmp.
shouldDownload(jr, arch, tmp, job) ==
  IF ~ShouldInclude(platformFilter, job[2]) THEN FALSE
  ELSE IF ~jr.present THEN TRUE
  ELSE IF job[1] \in jr.versions
       THEN ~(fileExists(arch[job]) \/ fileExists(tmp[job]))
       ELSE TRUE

\* ---------------------------------------------------------------------- Init
\* The configuration main hands to NewService: neither number is validated.
Configured(attempts, concurrent, filters, cycles) ==
  /\ maxAttempts \in attempts
  /\ maxConcurrent \in concurrent
  /\ platformFilter \in filters
  /\ stopAfter = cycles

\* Upstream publishes every platform of every version, or all but the last
\* platform of the first version.
Upstreams == {{}, {<<1, MaxPlatforms>>}}

\* A download directory without any file, and one in which the archive of
\* the first job was stored by an earlier process whose journal is lost.
EmptyStore == [j \in Jobs |-> "absent"]
FirstJobStored == [j \in Jobs |-> IF j = <<1, 1>> THEN "full" ELSE "absent"]

\* The service NewService builds on the download directory `files`.
Constructed(files) ==
  /\ unpublished \in Upstreams
  /\ ctxDone = FALSE
  /\ ret = "none"
  /\ cycle = 0
  /\ crashes = 0
  /\ opc = "idle"
  /\ archive = files
  /\ temp = [j \in Jobs |-> "absent"]
  /\ versionJson = [v \in Versions |-> NoDoc]
  /\ indexJson = NoDoc
  /\ journal = EmptyJournal
  /\ journalFile = EmptyJournal
  /\ pool = [p \in Pools |-> EmptyPool]
  /\ firstPool = "A"
  /\ i = 0
  /\ totalJobs = 0
  /\ resultsSent = 0
  /\ timeoutJobs = <<>>
  /\ failedJobs = {}
  /\ retryI = 0
  /\ taken = ZeroCount
  /\ sent = ZeroCount
  /\ reported = NoOutcome
  /\ listed = {}

\* The state after NewService on the download directory `files`; none of
\* the functions studied on their own is followed.
StartedOn(files) ==
  /\ Constructed(files)
  /\ fn = "none"
  /\ arg = <<>>
  /\ res = <<>>
  /\ called = FALSE

Init ==
  /\ Configured(0..MaxAttemptsBound, {MaxConcurrent}, {{}}, MaxCycles)
  /\ StartedOn(EmptyStore)

\* ------------------------------------------------------------- orchestrator
\* platformsToDownload of downloadProviders
platformsToDownload(f) == {p \in Platforms : ShouldInclude(f, p)}

\* jobList of downloadProviders: versions in upstream order, platforms in the
\* order of SupportedPlatforms, keeping the jobs shouldDownload accepts.
JobList(vs, jr, arch, tmp) ==
  LET all == SetToSeq({<<v, p>> : v \in vs, p \in platformsToDownload(platformFilter)})
  IN SelectSeqJobs(all, [j \in Jobs |-> shouldDownload(jr, arch, tmp, j)])

\* What the GET of "<version>.json" can bring: no 200 response, or a
\* document that lists every platform of the version.
UpstreamDocs == {NoDoc, Doc(Platforms)}

\* The planning loop's download of "<version>.json": for every planned
\* version whose document is not on disk, a 200 response is written as it is.
PlanVersionJson(vj, vs, docs) ==
  [v \in Versions |->
     IF v \in vs /\ ~vj[v].exists /\ docs[v].exists THEN docs[v] ELSE vj[v]]

\* downloadProviders returns before planning: the provider did not pass the
\* filter check, or discovery failed or found nothing.
PlanNothing ==
  /\ opc = "idle"
  /\ ret = "none"
  /\ cycle < stopAfter
  /\ cycle' = cycle + 1
  /\ UNCHANGED <<confVars, ctxVars, callVars, crashes, diskVars, journal, pool, opc, firstPool,
                 i, totalJobs, resultsSent, timeoutJobs, failedJobs, retryI,
                 histVars>>

\* A results channel that holds one result fewer than there are jobs.
ResultsCapShort(n) == n - 1

\* Capacity of the results channel of a pool given the number of its jobs.
ResultsCap(n) == n

\* make(chan DownloadJob, n), make(chan DownloadResult, n), the workers
\* started, every job queued and the jobs channel closed.
NewPool(jl) == [EmptyPool EXCEPT !.jobs = jl, !.cap = ResultsCap(Len(jl))]

\* Channels no goroutine refers to any more are gone: the pools other than
\* keep whose workers have all returned to an empty, closed jobs channel.
Collected(pl, keep) ==
  [q \in Pools |-> IF q \notin keep /\ Quiescent(q) THEN EmptyPool ELSE pl[q]]

\* downloadProviders up to and including close(jobs): planning, creation of
\* the channels, start of the workers, queueing of every job.
PlanCycle ==
  /\ opc = "idle"
  /\ ret = "none"
  /\ cycle < stopAfter
  /\ LET fp == FirstPoolOf(cycle + 1) IN
     /\ Quiescent(fp)
     /\ \E vs \in SUBSET Versions :
        \E docs \in [Versions -> UpstreamDocs] :
          LET jl == JobList(vs, journal, archive, temp) IN
          /\ versionJson' = PlanVersionJson(versionJson, vs, docs)
          /\ pool' = [Collected(pool, {}) EXCEPT ![fp] = NewPool(jl)]
          /\ totalJobs' = Len(jl)
          /\ listed' = vs
     /\ firstPool' = fp
  /\ taken' = ZeroCount
  /\ sent' = ZeroCount
  /\ reported' = NoOutcome
  /\ cycle' = cycle + 1
  /\ opc' = "collect"
  /\ i' = 0
  /\ resultsSent' = 0
  /\ timeoutJobs' = <<>>
  /\ failedJobs' = {}
  /\ retryI' = 0
  /\ UNCHANGED <<confVars, ctxVars, callVars, crashes, archive, temp, indexJson,
                 journalFile, journal>>

\* A cycle that begins when every worker of the earlier cycles has returned.
Plan ==
  /\ \A q \in Pools : Quiescent(q)
  /\ PlanCycle

\* A cycle that begins while workers of an earlier cycle are still running
\* (the tick that was pending when a long cycle returned).
PlanOverlap ==
  /\ \E q \in Pools : ~Quiescent(q)
  /\ PlanCycle

\* One iteration of the collection loop that receives a result.
Receive ==
  /\ opc = "collect"
  /\ i < totalJobs
  /\ pool[firstPool].results # <<>>
  /\ LET result == Head(pool[firstPool].results) IN
     /\ pool' = [pool EXCEPT ![firstPool].results = Tail(@)]
     /\ resultsSent' = resultsSent + 1
     /\ IF result.err # "nil"
        THEN /\ failedJobs' = failedJobs \cup {result.job}
             /\ timeoutJobs' = IF isTimeoutError(result.err)
                               THEN Append(timeoutJobs, result.job)
                               ELSE timeoutJobs
             /\ journal' = journal
        ELSE /\ journal' = updateMetadata(journal, result.job)
             /\ UNCHANGED <<failedJobs, timeoutJobs>>
  /\ i' = i + 1
  /\ UNCHANGED <<confVars, ctxVars, callVars, crashes, diskVars, cycle, opc, firstPool,
                 totalJobs, retryI, histVars>>

\* One iteration of the collection loop in which the 30-second watchdog
\* fires: no result was ready.  The loop counter advances all the same.
WatchdogTick ==
  /\ opc = "collect"
  /\ i < totalJobs
  /\ pool[firstPool].results = <<>>
  /\ i' = i + 1
  /\ UNCHANGED <<confVars, ctxVars, callVars, crashes, diskVars, journal, pool, cycle, opc,
                 firstPool, totalJobs, resultsSent, timeoutJobs, failedJobs,
                 retryI, histVars>>

\* The retry session begins: channels, workers, queueing of timeoutJobs.
\* (The retry pool of an earlier cycle is taken to have returned.)
StartRetry ==
  /\ opc = "collect"
  /\ i = totalJobs
  /\ timeoutJobs # <<>>
  /\ Quiescent("R")
  /\ pool' = [pool EXCEPT !["R"] = NewPool(timeoutJobs)]
  /\ opc' = "retry"
  /\ retryI' = 0
  /\ UNCHANGED <<confVars, ctxVars, callVars, crashes, diskVars, journal, cycle,
                 firstPool, i, totalJobs, resultsSent, timeoutJobs, failedJobs,
                 histVars>>

\* One iteration of the retry collection loop (a plain blocking receive).
RetryReceive ==
  /\ opc = "retry"
  /\ retryI < Len(timeoutJobs)
  /\ pool["R"].results # <<>>
  /\ LET result == Head(pool["R"].results) IN
     /\ pool' = [pool EXCEPT !["R"].results = Tail(@)]
     /\ IF result.err # "nil"
        THEN UNCHANGED <<journal, failedJobs>>
        ELSE IF result.skipped
        THEN /\ journal' = updateMetadata(journal, result.job)
             /\ failedJobs' = failedJobs
        ELSE /\ journal' = updateMetadata(journal, result.job)
             /\ failedJobs' = failedJobs \ {result.job}
  /\ retryI' = retryI + 1
  /\ UNCHANGED <<confVars, ctxVars, callVars, crashes, diskVars, cycle, opc, firstPool, i,
                 totalJobs, resultsSent, timeoutJobs, histVars>>

\* An archive dirhash.HashZip can hash: a complete, non-empty zip.
Hashable(c) == c = "full"

\* indexgen.GenerateIndexJSON over the directory entries es (archives under
\* their final names, in directory order).  An archive that cannot be hashed
\* ends the function before index.json is written.
RECURSIVE GenerateIndexJSON(_, _, _, _)
GenerateIndexJSON(es, arch, vj, versions) ==
  IF es = <<>> THEN [vj |-> vj, index |-> versions, err |-> FALSE]
  ELSE LET e == Head(es)
           v == e[1]
           old == IF vj[v].exists THEN vj[v].keys ELSE {}
       IN IF ~Hashable(arch[e])
          THEN [vj |-> vj, index |-> versions, err |-> TRUE]
          ELSE GenerateIndexJSON(Tail(es), arch,
                                 [vj EXCEPT ![v] = Doc(old \cup {e[2]})],
                                 versions \cup {v})

DirEntries(arch) == SetToSeq({j \in Jobs : fileExists(arch[j])})

\* The rest of downloadProviders: last_check, saveMetadata, index generation.
Finish ==
  /\ \/ opc = "collect" /\ i = totalJobs /\ timeoutJobs = <<>>
     \/ opc = "retry" /\ retryI = Len(timeoutJobs)
  /\ journalFile' = journal
  /\ LET g == GenerateIndexJSON(DirEntries(archive), archive, versionJson, {}) IN
     /\ versionJson' = g.vj
     /\ indexJson' = IF g.err THEN indexJson ELSE Doc(g.index)
  /\ opc' = "idle"
  /\ i' = 0
  /\ totalJobs' = 0
  /\ resultsSent' = 0
  /\ timeoutJobs' = <<>>
  /\ failedJobs' = {}
  /\ retryI' = 0
  /\ pool' = Collected(pool, {})
  /\ reported' = NoOutcome
  /\ listed' = {}
  /\ UNCHANGED <<confVars, ctxVars, callVars, crashes, archive, temp, journal,
                 cycle, firstPool, taken, sent>>

\* ------------------------------------------------------------------ workers
\* Workers that hold "<archive>.tmp" of job open for writing (between
\* createFile and file.Close) and whose open file is linked at `where`:
\* "temp" (still the temp path), "final" (renamed under the final name by
\* another worker) or "gone" (unlinked).
Writers(pl, job, where) ==
  {qy \in Pools \X Workers :
     /\ pl[qy[1]].w[qy[2]].pc = "copy"
     /\ pl[qy[1]].w[qy[2]].job = job
     /\ pl[qy[1]].w[qy[2]].fd = where}

\* The open files of job linked at `from` are now linked at `to`.
Retarget(pl, job, from, to) ==
  [q \in Pools |->
     [pl[q] EXCEPT !.w =
        [y \in Workers |->
           IF <<q, y>> \in Writers(pl, job, from)
           THEN [pl[q].w[y] EXCEPT !.fd = to]
           ELSE pl[q].w[y]]]]

\* The attempt loop of downloadWorker ends after an attempt that returned
\* (err, skipped): success or skip, an error that is no timeout, or no
\* attempt left.
LoopEnds(attempt, err, skipped) ==
  \/ err = "nil"
  \/ skipped
  \/ ~WorkerSeesTimeout(err)
  \/ attempt + 1 > maxAttempts

\* The DownloadResult a worker sends for its job.
MakeResult(job, err, skipped) == [job |-> job, err |-> err, skipped |-> skipped]

\* Worker x of pool p is about to run an attempt: it sits in
\* "for job := range jobs" with a job queued, or is between two attempts.
\* Of the workers waiting on the channel the lowest-numbered one is served.
CanBegin(p, x) ==
  \/ pool[p].w[x].pc = "begin"
  \/ /\ pool[p].w[x].pc = "idle"
     /\ x <= maxConcurrent
     /\ \A y \in Workers : y < x => pool[p].w[y].pc # "idle"
     /\ pool[p].jobs # <<>>
     /\ 1 <= maxAttempts

BeginsByTaking(p, x) == pool[p].w[x].pc = "idle"
JobOf(p, x) == IF BeginsByTaking(p, x) THEN Head(pool[p].jobs) ELSE pool[p].w[x].job

\* The pool once worker x holds its job and runs its attempt.
Begun(p, x) ==
  IF BeginsByTaking(p, x)
  THEN [pool EXCEPT ![p].jobs = Tail(@),
                    ![p].w[x] = Attempting(Head(pool[p].jobs), 1)]
  ELSE pool

TakenAfter(p, x) ==
  IF BeginsByTaking(p, x) THEN [taken EXCEPT ![p][JobOf(p, x)] = @ + 1] ELSE taken

\* End of one attempt of worker x of pool p with (err, skipped), on the
\* pool value pl: either the next attempt, or the result is sent and the
\* worker is back at "for job := range jobs".
AttemptEnds(pl, p, x, err, skipped) ==
  LET wk == pl[p].w[x] IN
  IF LoopEnds(wk.attempt, err, skipped)
  THEN /\ Len(pl[p].results) < pl[p].cap
       /\ pool' = [pl EXCEPT ![p].w[x] = IdleWorker,
                             ![p].results = Append(@, MakeResult(wk.job, err, skipped))]
       /\ sent' = [sent EXCEPT ![p][wk.job] = @ + 1]
       /\ reported' = [reported EXCEPT ![p][wk.job] = Outcome(err, skipped)]
  ELSE /\ pool' = [pl EXCEPT ![p].w[x] =
                     [Attempting(wk.job, wk.attempt + 1) EXCEPT !.err = err]]
       /\ UNCHANGED <<sent, reported>>

\* "for job := range jobs" receives a job while maxAttempts < 1: the body of
\* the attempt loop never runs and the result (nil, false) is sent at once.
TakeNoAttempt(p, x) ==
  /\ pool[p].w[x].pc = "idle"
  /\ x <= maxConcurrent
  /\ \A y \in Workers : y < x => pool[p].w[y].pc # "idle"
  /\ pool[p].jobs # <<>>
  /\ maxAttempts < 1
  /\ Len(pool[p].results) < pool[p].cap
  /\ LET job == Head(pool[p].jobs) IN
     /\ taken' = [taken EXCEPT ![p][job] = @ + 1]
     /\ pool' = [pool EXCEPT ![p].jobs = Tail(@),
                             ![p].results = Append(@, MakeResult(job, "nil", FALSE))]
     /\ sent' = [sent EXCEPT ![p][job] = @ + 1]
     /\ reported' = [reported EXCEPT ![p][job] = Outcome("nil", FALSE)]
  /\ UNCHANGED <<confVars, ctxVars, callVars, crashes, diskVars, journal, orchVars, listed>>

\* Errors with which an attempt can end before anything is written: the 404
\* of an unpublished package, or any failure of a request.
PackageErrors(job) == IF job \in unpublished THEN {"other"} ELSE Failures

\* downloadProvider: GetProviderPackage fails, or the GET of DownloadFile
\* fails or answers another status than 200, or the temp file cannot be
\* created.  Nothing is written.
BeginFail(p, x) ==
  /\ CanBegin(p, x)
  /\ taken' = TakenAfter(p, x)
  /\ \E err \in PackageErrors(JobOf(p, x)) :
       AttemptEnds(Begun(p, x), p, x, err, FALSE)
  /\ UNCHANGED <<confVars, ctxVars, callVars, crashes, diskVars, journal, orchVars, listed>>

\* downloadProvider: the file exists and verifyChecksum accepts it.
BeginSkip(p, x) ==
  /\ CanBegin(p, x)
  /\ taken' = TakenAfter(p, x)
  /\ JobOf(p, x) \notin unpublished
  /\ \E sh \in Shasums :
       /\ fileExists(archive[JobOf(p, x)])
       /\ verifyChecksum(archive[JobOf(p, x)], sh)
       /\ AttemptEnds(Begun(p, x), p, x, "nil", TRUE)
  /\ UNCHANGED <<confVars, ctxVars, callVars, crashes, diskVars, journal, orchVars, listed>>

\* downloadProvider up to createFile(tempPath) in saveFile: the package
\* metadata is read, the file is absent or rejected, the GET answers 200 and
\* the temp file is created (truncated when it exists).
BeginDownload(p, x) ==
  /\ CanBegin(p, x)
  /\ taken' = TakenAfter(p, x)
  /\ JobOf(p, x) \notin unpublished
  /\ LET job == JobOf(p, x) IN
     \E sh \in Shasums :
       /\ ~(fileExists(archive[job]) /\ verifyChecksum(archive[job], sh))
       /\ temp' = [temp EXCEPT ![job] = "partial"]
       /\ pool' = [Begun(p, x) EXCEPT ![p].w[x] =
                     [@ EXCEPT !.pc = "copy", !.sh = sh, !.fd = "temp",
                               !.err = "nil"]]
  /\ UNCHANGED <<confVars, ctxVars, callVars, crashes, archive, versionJson, indexJson,
                 journalFile, journal, orchVars, sent, reported, listed>>

\* What a file holds once a writer has written body b into it and closed
\* it: b, unless another writer still has the same file open.
Written(pl, job, where, b) ==
  IF Writers(pl, job, where) # {} THEN "partial" ELSE b

\* saveFile: io.Copy, Close and renameFile succeed.  Writers that share the
\* temp file keep writing into it under its final name.
CopyOk(p, x) ==
  /\ pool[p].w[x].pc = "copy"
  /\ pool[p].w[x].fd = "temp"
  /\ LET job == pool[p].w[x].job
         pl == [pool EXCEPT ![p].w[x] = [@ EXCEPT !.pc = "verify", !.fd = "none"]]
     IN \E b \in Bodies :
          /\ archive' = [archive EXCEPT ![job] = Written(pl, job, "temp", b)]
          /\ temp' = [temp EXCEPT ![job] = "absent"]
          /\ pool' = Retarget(Retarget(pl, job, "final", "gone"), job, "temp", "final")
  /\ UNCHANGED <<confVars, ctxVars, callVars, crashes, versionJson, indexJson, journalFile,
                 journal, orchVars, histVars>>

\* saveFile: io.Copy or Close fails (the attempt's deadline, a broken
\* connection, a disk error), or renameFile fails; the temp path is removed.
\* What was written stays in the file the worker had open.
CopyFail(p, x) ==
  /\ pool[p].w[x].pc = "copy"
  /\ LET job == pool[p].w[x].job
         pl == Retarget([pool EXCEPT ![p].w[x].fd = "none"], job, "temp", "gone")
     IN /\ temp' = [temp EXCEPT ![job] = "absent"]
        /\ \E err \in Failures : AttemptEnds(pl, p, x, err, FALSE)
  /\ UNCHANGED <<confVars, ctxVars, callVars, crashes, archive, versionJson, indexJson,
                 journalFile, journal, orchVars, taken, listed>>

\* saveFile of a worker whose temp file another worker has renamed under the
\* final name meanwhile: io.Copy and Close complete the file under its final
\* name, renameFile finds no temp path and fails.
CopyRenamed(p, x) ==
  /\ pool[p].w[x].pc = "copy"
  /\ pool[p].w[x].fd = "final"
  /\ LET job == pool[p].w[x].job
         pl == Retarget([pool EXCEPT ![p].w[x].fd = "none"], job, "temp", "gone")
     IN /\ \E b \in Bodies :
             archive' = [archive EXCEPT ![job] = Written(pl, job, "final", b)]
        /\ temp' = [temp EXCEPT ![job] = "absent"]
        /\ AttemptEnds(pl, p, x, "other", FALSE)
  /\ UNCHANGED <<confVars, ctxVars, callVars, crashes, versionJson, indexJson, journalFile,
                 journal, orchVars, taken, listed>>

\* downloadProvider: verifyChecksum accepts the downloaded file.
VerifyOk(p, x) ==
  /\ pool[p].w[x].pc = "verify"
  /\ verifyChecksum(archive[pool[p].w[x].job], pool[p].w[x].sh)
  /\ AttemptEnds(pool, p, x, "nil", FALSE)
  /\ UNCHANGED <<confVars, ctxVars, callVars, crashes, diskVars, journal, orchVars, taken, listed>>

\* downloadProvider: verifyChecksum rejects the downloaded file, which is
\* removed.
VerifyFail(p, x) ==
  /\ pool[p].w[x].pc = "verify"
  /\ LET job == pool[p].w[x].job
         pl == Retarget(pool, job, "final", "gone")
     IN /\ ~verifyChecksum(archive[job], pool[p].w[x].sh)
        /\ archive' = [archive EXCEPT ![job] = "absent"]
        /\ \E err \in NonTimeouts : AttemptEnds(pl, p, x, err, FALSE)
  /\ UNCHANGED <<confVars, ctxVars, callVars, crashes, temp, versionJson, indexJson,
                 journalFile, journal, orchVars, taken, listed>>

\* The process dies and is started again: every goroutine is gone, the
\* store stays as it is, NewService loads the journal file.
Crash ==
  /\ crashes < MaxCrashes
  /\ crashes' = crashes + 1
  /\ pool' = [p \in Pools |-> EmptyPool]
  /\ journal' = journalFile
  /\ opc' = "idle"
  /\ firstPool' = "A"
  /\ i' = 0
  /\ totalJobs' = 0
  /\ resultsSent' = 0
  /\ timeoutJobs' = <<>>
  /\ failedJobs' = {}
  /\ retryI' = 0
  /\ taken' = ZeroCount
  /\ sent' = ZeroCount
  /\ reported' = NoOutcome
  /\ listed' = {}
  /\ UNCHANGED <<confVars, ctxVars, callVars, diskVars, cycle>>

\* The goroutine of runDownloader that waits for SIGINT or SIGTERM calls
\* cancel().
Cancel ==
  /\ ~ctxDone
  /\ ret = "none"
  /\ ctxDone' = TRUE
  /\ UNCHANGED <<confVars, callVars, ret, crashes, diskVars, journal, pool, orchVars,
                 histVars>>

\* StartWithContext always answering nil.
CtxErrNil(done) == "nil"

\* ctx.Err(): nil until the context is cancelled, then context.Canceled.
CtxErr(done) == IF done THEN "canceled" ELSE "nil"

\* Exit code of the process once StartWithContext has returned err: a
\* non-nil err goes to logger.Fatal, which calls os.Exit(1).
ExitCode(err) == IF err # "nil" THEN 1 ELSE 0

\* The select of StartWithContext takes the case <-ctx.Done() and returns
\* ctx.Err(); runDownloader then ends the process and with it every worker.
Return ==
  /\ opc = "idle"
  /\ cycle >= 1
  /\ ctxDone
  /\ ret = "none"
  /\ ret' = CtxErr(ctxDone)
  /\ pool' = [p \in Pools |-> EmptyPool]
  /\ UNCHANGED <<confVars, callVars, ctxDone, crashes, diskVars, journal, orchVars,
                 histVars>>

Orchestrator ==
  \/ PlanNothing
  \/ Plan
  \/ Receive
  \/ WatchdogTick
  \/ StartRetry
  \/ RetryReceive
  \/ Finish

Worker(p, x) ==
  \/ TakeNoAttempt(p, x)
  \/ BeginFail(p, x)
  \/ BeginSkip(p, x)
  \/ BeginDownload(p, x)
  \/ CopyOk(p, x)
  \/ CopyFail(p, x)
  \/ VerifyOk(p, x)
  \/ VerifyFail(p, x)

\* One run of the process in which the ticker fires only after the workers
\* of the cycle before have returned.
Next ==
  \/ Orchestrator
  \/ \E p \in Pools, x \in Workers : Worker(p, x)

Spec == Init /\ [][Next]_vars

\* Runs that a crash and a restart may interrupt.
NextCrash ==
  \/ Next
  \/ Crash

SpecCrash == Init /\ [][NextCrash]_vars

\* Runs with one worker, one platform and at most one attempt per job in which a cycle may begin
\* while workers of the cycle before are still running.
InitOverlap ==
  /\ Configured({0, 1}, {1}, {{1}}, MaxCycles)
  /\ StartedOn(EmptyStore)

NextOverlap ==
  \/ Next
  \/ PlanOverlap
  \/ \E p \in Pools, x \in Workers : CopyRenamed(p, x)

SpecOverlap == InitOverlap /\ [][NextOverlap]_vars

\* The scheduler runs every goroutine that can take a step: a worker that is
\* not blocked on a channel goes on.  Nothing is assumed of the orchestrator.
Fairness == \A p \in Pools, x \in Workers : WF_vars(Worker(p, x))

\* Runs of FairCycles cycles under that scheduler.
InitFair ==
  /\ Configured(0..MaxAttemptsBound, {MaxConcurrent}, {{}}, FairCycles)
  /\ StartedOn(FirstJobStored)

SpecFair == InitFair /\ [][Next]_vars /\ Fairness

\* Runs with one worker and one platform that a signal may end.
InitCancel ==
  /\ Configured({0, 1}, {1}, {{1}}, MaxCycles)
  /\ StartedOn(EmptyStore)

NextCancel ==
  \/ Next
  \/ Cancel
  \/ Return

\* The orchestrator goroutine runs whenever it is not blocked: the first
\* cycle starts at once, every select of the collection loop ends with a
\* result or a watchdog tick, and the select of StartWithContext takes
\* <-ctx.Done() once no tick is left.
FairnessCancel ==
  /\ Fairness
  /\ WF_vars((Plan \/ PlanNothing) /\ cycle = 0)
  /\ WF_vars(Receive \/ WatchdogTick)
  /\ WF_vars(StartRetry)
  /\ WF_vars(RetryReceive)
  /\ WF_vars(Finish)
  /\ WF_vars(Return)

SpecCancel == InitCancel /\ [][NextCancel]_vars /\ FairnessCancel

\* -------------------------------------------------- strings and filters
\* A string is the sequence of its characters.
MaxFilterLen == 3

StringsOver(chars, n) == UNION {[1..k -> chars] : k \in 0..n}

FilterChars == {"a", "/", "_", ">", ",", " "}
FilterStrings == StringsOver(FilterChars, MaxFilterLen)

\* strings.Index for a one-character separator; 0 stands for Go's -1.
Index(str, c) ==
  LET at == {k \in 1..Len(str) : str[k] = c}
  IN IF at = {} THEN 0 ELSE CHOOSE k \in at : \A l \in at : k <= l

\* strings.SplitN(str, sep, n) for n >= 1: at most n pieces, the last one
\* the unsplit rest.
RECURSIVE SplitN(_, _, _)
SplitN(str, sep, n) ==
  IF n = 1 \/ Index(str, sep) = 0
  THEN <<str>>
  ELSE <<SubSeq(str, 1, Index(str, sep) - 1)>>
         \o SplitN(SubSeq(str, Index(str, sep) + 1, Len(str)), sep, n - 1)

\* strings.Split: a string with k separators has k + 1 pieces.
Split(str, sep) == SplitN(str, sep, Len(str) + 1)

RECURSIVE TrimLeft(_, _)
TrimLeft(str, c) ==
  IF str # <<>> /\ Head(str) = c THEN TrimLeft(Tail(str), c) ELSE str

RECURSIVE TrimRight(_, _)
TrimRight(str, c) ==
  IF str # <<>> /\ str[Len(str)] = c
  THEN TrimRight(SubSeq(str, 1, Len(str) - 1), c)
  ELSE str

\* strings.TrimSpace; the blank is the only white space of the alphabets.
TrimSpace(str) == TrimRight(TrimLeft(str, " "), " ")

\* A nil filter together with an error.
FilterError == [err |-> TRUE, enabled |-> FALSE, items |-> {}]

\* The loop of NewProviderFilter over the entries left to read.
RECURSIVE ProviderEntries(_, _)
ProviderEntries(entries, filter) ==
  IF entries = <<>> THEN filter
  ELSE
    LET entry == TrimSpace(Head(entries))
        parts == Split(entry, ">")
        minVersion == IF Len(parts) > 1 THEN TrimSpace(parts[2]) ELSE <<>>
        nsName == Split(parts[1], "/")
        key == <<nsName[1], nsName[2]>>
    IN IF entry = <<>> THEN ProviderEntries(Tail(entries), filter)
       ELSE IF Len(nsName) # 2 \/ nsName[1] = <<>> \/ nsName[2] = <<>>
       THEN FilterError
       ELSE ProviderEntries(Tail(entries),
              [err |-> FALSE,
               enabled |-> TRUE,
               items |-> {it \in filter.items : it.key # key}
                           \cup {[key |-> key, MinVersion |-> minVersion]}])

NewProviderFilter(filterString) ==
  LET filter == [err |-> FALSE, enabled |-> FALSE, items |-> {}]
  IN IF filterString = <<>> THEN filter
     ELSE ProviderEntries(Split(filterString, ","), filter)

\* The loop of NewPlatformFilter over the tokens left to read.
RECURSIVE PlatformEntries(_, _)
PlatformEntries(entries, filter) ==
  IF entries = <<>> THEN filter
  ELSE
    LET platform == TrimSpace(Head(entries))
        parts == Split(platform, "_")
    IN IF platform = <<>> THEN PlatformEntries(Tail(entries), filter)
       ELSE IF Len(parts) # 2 \/ parts[1] = <<>> \/ parts[2] = <<>>
       THEN FilterError
       ELSE PlatformEntries(Tail(entries),
              [err |-> FALSE,
               enabled |-> TRUE,
               items |-> filter.items \cup {platform}])

NewPlatformFilter(filterString) ==
  LET filter == [err |-> FALSE, enabled |-> FALSE, items |-> {}]
  IN IF filterString = <<>> THEN filter
     ELSE PlatformEntries(Split(filterString, ","), filter)

\* IsEnabled of both filters
IsEnabled(filter) == filter.enabled

\* A nil list together with an error.
BinaryError == [err |-> TRUE, list |-> <<>>]

\* The loop of ParseBinaryFilter over the parts left to read.
RECURSIVE BinaryParts(_, _)
BinaryParts(parts, result) ==
  IF parts = <<>> THEN [err |-> FALSE, list |-> result]
  ELSE
    LET part == TrimSpace(Head(parts))
        sub == Split(part, ">")
    IN IF part = <<>> THEN BinaryParts(Tail(parts), result)
       ELSE IF Len(sub) # 2 THEN BinaryError
       ELSE BinaryParts(Tail(parts),
              Append(result, [Tool |-> TrimSpace(sub[1]),
                              MinVersion |-> TrimSpace(sub[2])]))

ParseBinaryFilter(filter) ==
  IF filter = <<>> THEN [err |-> FALSE, list |-> <<>>]
  ELSE BinaryParts(Split(filter, ","), <<>>)

\* One of the three parsers is given one filter string.
FilterParsers == {"NewProviderFilter", "NewPlatformFilter", "ParseBinaryFilter"}

InitFilters ==
  /\ Configured({1}, {1}, {{}}, 0)
  /\ Constructed(EmptyStore)
  /\ fn \in FilterParsers
  /\ arg \in FilterStrings
  /\ res = <<>>
  /\ called = FALSE

\* The function returns `value` to its caller.
Returned(value) ==
  /\ ~called
  /\ res' = value
  /\ called' = TRUE
  /\ UNCHANGED <<confVars, ctxVars, fn, arg, crashes, diskVars, journal, pool,
                 orchVars, histVars>>

CallNewProviderFilter ==
  /\ fn = "NewProviderFilter"
  /\ Returned(NewProviderFilter(arg))

CallNewPlatformFilter ==
  /\ fn = "NewPlatformFilter"
  /\ Returned(NewPlatformFilter(arg))

CallParseBinaryFilter ==
  /\ fn = "ParseBinaryFilter"
  /\ Returned(ParseBinaryFilter(arg))

NextFilters ==
  \/ CallNewProviderFilter
  \/ CallNewPlatformFilter
  \/ CallParseBinaryFilter

SpecFilters == InitFilters /\ [][NextFilters]_vars

\* ------------------------------------------------------ minimum versions
\* Version strings are drawn from digits and dots, so none of them has a
\* pre-release or a build part.
MaxVersionLen == 3
MaxVersionList == 2

Digits == {"0", "1", "2", "3", "4", "5", "6", "7", "8", "9"}
VersionChars == {"0", "1", "."}
VersionStrings == StringsOver(VersionChars, MaxVersionLen)

DigitValue(c) == CHOOSE n \in 0..9 : ToString(n) = c

\* strconv.ParseUint of a string of digits
RECURSIVE ParseUint(_)
ParseUint(str) ==
  IF str = <<>> THEN 0
  ELSE 10 * ParseUint(SubSeq(str, 1, Len(str) - 1)) + DigitValue(str[Len(str)])

NoVersion == [err |-> TRUE, Major |-> 0, Minor |-> 0, Patch |-> 0]

\* One of the three numbers of semver.Parse: digits only, at least one, no
\* leading zero.
IsNumber(str) ==
  /\ str # <<>>
  /\ \A k \in 1..Len(str) : str[k] \in Digits
  /\ ~(Len(str) > 1 /\ str[1] = "0")

\* semver.Parse of the three parts joined by dots
Parse(parts) ==
  IF \A k \in 1..3 : IsNumber(parts[k])
  THEN [err |-> FALSE,
        Major |-> ParseUint(parts[1]),
        Minor |-> ParseUint(parts[2]),
        Patch |-> ParseUint(parts[3])]
  ELSE NoVersion

\* ParseTolerant drops the leading zeros of a part of two characters or more.
NoLeadingZeros(part) ==
  IF Len(part) > 1
  THEN LET cut == TrimLeft(part, "0")
       IN IF cut = <<>> \/ cut[1] \notin Digits THEN <<"0">> \o cut ELSE cut
  ELSE part

\* semver.ParseTolerant: blanks and a leading "v" are dropped, leading
\* zeros are dropped, and a missing minor or patch number is taken as 0.
ParseTolerant(str) ==
  LET trimmed == TrimSpace(str)
      bare == IF trimmed # <<>> /\ Head(trimmed) = "v"
              THEN Tail(trimmed) ELSE trimmed
      split == SplitN(bare, ".", 3)
      parts == [k \in 1..Len(split) |-> NoLeadingZeros(split[k])]
      last == parts[Len(parts)]
      short == Len(parts) < 3
      filled == [k \in 1..3 |-> IF k <= Len(parts) THEN parts[k] ELSE <<"0">>]
  IN IF short /\ \E k \in 1..Len(last) : last[k] \in {"+", "-"}
     THEN NoVersion
     ELSE Parse(filled)

\* Version.Compare: -1, 0 or 1
Compare(v, o) ==
  IF v.Major # o.Major THEN (IF v.Major > o.Major THEN 1 ELSE -1)
  ELSE IF v.Minor # o.Minor THEN (IF v.Minor > o.Minor THEN 1 ELSE -1)
  ELSE IF v.Patch # o.Patch THEN (IF v.Patch > o.Patch THEN 1 ELSE -1)
  ELSE 0

\* A comparison that leaves out the equal version.
GT(v, o) == Compare(v, o) = 1

\* Version.GTE
GTE(v, o) == Compare(v, o) >= 0

\* The loop of FilterVersionsByMin over the versions left to read.
RECURSIVE FilterLoop(_, _, _)
FilterLoop(versions, minVer, filtered) ==
  IF versions = <<>> THEN filtered
  ELSE LET v == Head(versions)
           ver == ParseTolerant(v)
       IN IF ver.err THEN FilterLoop(Tail(versions), minVer, filtered)
          ELSE IF GTE(ver, minVer)
          THEN FilterLoop(Tail(versions), minVer, Append(filtered, v))
          ELSE FilterLoop(Tail(versions), minVer, filtered)

\* The loop putting every kept version in front of the ones kept before.
RECURSIVE PrependLoop(_, _, _)
PrependLoop(versions, minVer, filtered) ==
  IF versions = <<>> THEN filtered
  ELSE LET v == Head(versions)
           ver == ParseTolerant(v)
       IN IF ~ver.err /\ GTE(ver, minVer)
          THEN PrependLoop(Tail(versions), minVer, <<v>> \o filtered)
          ELSE PrependLoop(Tail(versions), minVer, filtered)

FilterVersionsByMinPrepending(versions, minVersion) ==
  IF minVersion = <<>> \/ ParseTolerant(minVersion).err THEN versions
  ELSE PrependLoop(versions, ParseTolerant(minVersion), <<>>)

FilterVersionsByMin(versions, minVersion) ==
  IF minVersion = <<>> THEN versions
  ELSE IF ParseTolerant(minVersion).err THEN versions
  ELSE FilterLoop(versions, ParseTolerant(minVersion), <<>>)

\* FilterVersionsByMin is given one list of versions and one minimum, and
\* then its own result with the same minimum.
InitVersions ==
  /\ Configured({1}, {1}, {{}}, 0)
  /\ Constructed(EmptyStore)
  /\ unpublished = {}
  /\ fn = "FilterVersionsByMin"
  /\ \E n \in 0..MaxVersionList :
       \E versions \in [1..n -> VersionStrings] :
         \E minVersion \in VersionStrings :
           arg = [versions |-> versions, minVersion |-> minVersion]
  /\ res = [out |-> <<>>, again |-> <<>>, calls |-> 0]
  /\ called = FALSE

CallFilterVersionsByMin ==
  /\ fn = "FilterVersionsByMin"
  /\ Returned([out |-> FilterVersionsByMin(arg.versions, arg.minVersion),
               again |-> <<>>,
               calls |-> 1])

CallFilterVersionsByMinAgain ==
  /\ fn = "FilterVersionsByMin"
  /\ called
  /\ res.calls = 1
  /\ res' = [res EXCEPT !.again = FilterVersionsByMin(res.out, arg.minVersion),
                        !.calls = 2]
  /\ UNCHANGED <<confVars, ctxVars, fn, arg, called, crashes, diskVars,
                 journal, pool, orchVars, histVars>>

NextVersions ==
  \/ CallFilterVersionsByMin
  \/ CallFilterVersionsByMinAgain

SpecVersions == InitVersions /\ [][NextVersions]_vars

\* ------------------------------------------------------ journal entries
\* The entry of the provider in the journal, as the lists the code keeps.
MaxUpdates == 4

NoProviderInfo == [Platforms |-> <<>>, Versions |-> <<>>]

\* The lists a `for p := range platformSet` can build: Go leaves the order
\* of a map's keys open, and every key comes once.
RangeOrders(set) ==
  {order \in [1..Cardinality(set) -> set] : Range(order) = set}

\* A scan that never finds the version.
versionNeverExists(versions, version) == FALSE

\* The scan of updateMetadata for the version in the entry's versions.
versionExists(versions, version) ==
  \E k \in 1..Len(versions) : versions[k] = version

\* The entries updateMetadata can leave for the provider.
updateMetadataLists(providerInfo, job) ==
  LET platformSet == Range(providerInfo.Platforms) \cup {job[2]}
      versions == IF versionExists(providerInfo.Versions, job[1])
                  THEN providerInfo.Versions
                  ELSE Append(providerInfo.Versions, job[1])
  IN {[Platforms |-> order, Versions |-> versions] :
        order \in RangeOrders(platformSet)}

\* updateMetadata is called for a list of up to MaxUpdates jobs, on the
\* journal of a store without a journal file.
InitJournal ==
  /\ Configured({1}, {1}, {{}}, 0)
  /\ Constructed(EmptyStore)
  /\ unpublished = {}
  /\ fn = "updateMetadata"
  /\ \E n \in 0..MaxUpdates : arg \in [1..n -> Jobs]
  /\ res = [info |-> NoProviderInfo, before |-> NoProviderInfo, calls |-> 0]
  /\ called = FALSE

CallUpdateMetadata ==
  /\ fn = "updateMetadata"
  /\ res.calls < Len(arg)
  /\ \E info \in updateMetadataLists(res.info, arg[res.calls + 1]) :
       res' = [info |-> info, before |-> res.info, calls |-> res.calls + 1]
  /\ called' = TRUE
  /\ UNCHANGED <<confVars, ctxVars, fn, arg, crashes, diskVars, journal, pool,
                 orchVars, histVars>>

NextJournal == CallUpdateMetadata

SpecJournal == InitJournal /\ [][NextJournal]_vars

\* ------------------------------------------------------ outcome arrival
\* The collection loop receives the outcomes of a cycle's jobs in any order
\* and updates the provider's entry.
MaxOutcomes == 3

OutcomeKinds == {"Ok", "Skipped", "FailedTimeout", "FailedOther"}
OutcomeJobs == {1, 2} \X Platforms

\* A loop that records downloaded archives only.
ChangesJournalOkOnly(kind) == kind = "Ok"

\* The branches of the collection loop that call updateMetadata: the one
\* of a skipped job and the one of a downloaded job.
ChangesJournal(kind) == kind \in {"Skipped", "Ok"}

InitOutcomes ==
  /\ Configured({1}, {1}, {{}}, 0)
  /\ Constructed(EmptyStore)
  /\ unpublished = {}
  /\ fn = "collect"
  /\ \E n \in 1..MaxOutcomes :
       \E jobs \in [1..n -> OutcomeJobs], kinds \in [1..n -> OutcomeKinds] :
         /\ arg = [k \in 1..n |-> [job |-> jobs[k], kind |-> kinds[k]]]
         /\ res = [left |-> 1..n, info |-> NoProviderInfo,
                   before |-> NoProviderInfo, last |-> 0]
  /\ called = FALSE

\* `case result := <-results`: one of the outcomes not yet received arrives.
ReceiveOutcome ==
  /\ fn = "collect"
  /\ \E k \in res.left :
       \E info \in (IF ChangesJournal(arg[k].kind)
                    THEN updateMetadataLists(res.info, arg[k].job)
                    ELSE {res.info}) :
         res' = [left |-> res.left \ {k}, info |-> info,
                 before |-> res.info, last |-> k]
  /\ called' = TRUE
  /\ UNCHANGED <<confVars, ctxVars, fn, arg, crashes, diskVars, journal, pool,
                 orchVars, histVars>>

NextOutcomes == ReceiveOutcome

SpecOutcomes == InitOutcomes /\ [][NextOutcomes]_vars

\* ------------------------------------------------------------ HTTP client
\* HTTPClient.GetWithContext against a server whose answers to the
\* successive c.client.Do(req) are given.
MaxRetriesBound == 2

Statuses == {200, 404, 499, 500, 503}

\* What one c.client.Do(req) brings: a transport error, or a response.
TransportError == [err |-> TRUE, status |-> 0]
Answers == {TransportError} \cup {[err |-> FALSE, status |-> st] : st \in Statuses}

\* The test that ends the loop with `return resp, nil`.
Returnable(answer) == ~answer.err /\ answer.status < 500

\* A loop that sleeps after its last attempt too.
SleepsAfterEvery(n, maxRetries) == n <= maxRetries

\* `if i < c.maxRetries`: the loop sleeps before a further attempt.
SleepsAfter(n, maxRetries) == n < maxRetries

\* time.Duration(1<<uint(i)) * time.Second, in seconds
RECURSIVE WaitTime(_)
WaitTime(n) == IF n = 0 THEN 1 ELSE 2 * WaitTime(n - 1)

NoAnswer == [err |-> FALSE, status |-> 0]

\* What c.client.Do(req) brings once the request's context is done: the
\* context's error, at once.
CtxError == [err |-> TRUE, status |-> 0, ctx |-> TRUE]

InitClient ==
  /\ Configured({1}, {1}, {{}}, 0)
  /\ Constructed(EmptyStore)
  /\ unpublished = {}
  /\ fn = "GetWithContext"
  /\ \E maxRetries \in -1..MaxRetriesBound :
       \E answers \in [1..(maxRetries + 1) -> Answers] :
         arg = [maxRetries |-> maxRetries, answers |-> answers]
  /\ res = [pc |-> "do", n |-> 0, attempts |-> 0, sleeps |-> <<>>,
            last |-> NoAnswer, ret |-> "none"]
  /\ called = FALSE

clientRest ==
  <<confVars, ctxVars, fn, arg, crashes, diskVars, journal, pool, orchVars,
    histVars>>

\* One iteration of the loop up to its sleep: c.client.Do(req), then the
\* return of a response below 500, or the way to the sleep or to the next
\* test of the loop.
ClientDo ==
  /\ fn = "GetWithContext"
  /\ res.pc = "do"
  /\ res.n <= arg.maxRetries
  /\ LET answer == IF ctxDone THEN CtxError ELSE arg.answers[res.attempts + 1]
         tried == [res EXCEPT !.attempts = @ + 1, !.last = answer]
     IN IF Returnable(answer)
        THEN /\ res' = [tried EXCEPT !.pc = "done", !.ret = "resp"]
             /\ called' = TRUE
        ELSE IF SleepsAfter(res.n, arg.maxRetries)
        THEN /\ res' = [tried EXCEPT !.pc = "sleep"]
             /\ UNCHANGED called
        ELSE /\ res' = [tried EXCEPT !.n = @ + 1]
             /\ UNCHANGED called
  /\ UNCHANGED clientRest

\* time.Sleep(waitTime), then i++.
ClientSleep ==
  /\ fn = "GetWithContext"
  /\ res.pc = "sleep"
  /\ res' = [res EXCEPT !.pc = "do",
                        !.sleeps = Append(@, WaitTime(res.n)),
                        !.n = @ + 1]
  /\ UNCHANGED called
  /\ UNCHANGED clientRest

\* The loop is over: the last error is returned, or else the last response.
ClientGiveUp ==
  /\ fn = "GetWithContext"
  /\ res.pc = "do"
  /\ res.n > arg.maxRetries
  /\ res' = [res EXCEPT !.pc = "done",
                        !.ret = IF res.last.err THEN "err" ELSE "resp"]
  /\ called' = TRUE
  /\ UNCHANGED clientRest

NextClient ==
  \/ ClientDo
  \/ ClientSleep
  \/ ClientGiveUp

SpecClient == InitClient /\ [][NextClient]_vars

\* The context of the request is cancelled, or its deadline passes, while
\* GetWithContext runs.
ClientCtxDone ==
  /\ fn = "GetWithContext"
  /\ res.pc # "done"
  /\ ~ctxDone
  /\ ctxDone' = TRUE
  /\ UNCHANGED <<confVars, ret, callVars, crashes, diskVars, journal, pool,
                 orchVars, histVars>>

NextClientCtx ==
  \/ NextClient
  \/ ClientCtxDone

SpecClientCtx == InitClient /\ [][NextClientCtx]_vars

\* --------------------------------------------------------- server metrics
\* Metrics.RecordRequest, called by request goroutines of the server for the
\* one endpoint they ask.  Times of day are not kept.
MaxCallsEach == 2
KeepLast == 100

Goroutines == {1, 2}
Durations == {1, 3}
Calls == [duration : Durations, isError : BOOLEAN]

RECURSIVE Sum(_)
Sum(list) == IF list = <<>> THEN 0 ELSE Head(list) + Sum(Tail(list))

\* The metrics after `n` requests of one time unit each, none an error.
MetricsAfter(n) ==
  [RequestCount |-> n,
   ErrorCount |-> 0,
   ResponseTimes |-> [k \in 1..n |-> 1],
   AverageResponse |-> IF n = 0 THEN 0 ELSE 1,
   stat |-> [RequestCount |-> n, ErrorCount |-> 0,
             AverageResponse |-> IF n = 0 THEN 0 ELSE 1]]

OutOfCall == [pc |-> "out", done |-> 0, reg |-> 0]

\* The server has just started, or has answered KeepLast - 2 requests; each
\* goroutine is given the requests it will record.
InitMetrics ==
  /\ Configured({1}, {1}, {{}}, 0)
  /\ Constructed(EmptyStore)
  /\ unpublished = {}
  /\ fn = "RecordRequest"
  /\ \E calls \in [Goroutines -> UNION {[1..n -> Calls] : n \in 0..MaxCallsEach}] :
       arg = calls
  /\ \E n \in {0, KeepLast - 2} :
       res = [mu |-> 0,
              m |-> MetricsAfter(n),
              g |-> [gr \in Goroutines |-> OutOfCall],
              arrived |-> [k \in 1..n |-> [duration |-> 1, isError |-> FALSE]]]
  /\ called = FALSE

metricsRest ==
  <<confVars, ctxVars, fn, arg, crashes, diskVars, journal, pool, orchVars,
    histVars>>

\* A mutex that anyone can take at any time.
LockFreeAlways(mu) == TRUE

\* m.mu.Lock() goes through when nobody holds the mutex.
LockFree(mu) == mu = 0

\* The call of goroutine gr that is under way or next.
CallOf(gr) == arg[gr][res.g[gr].done + 1]

\* m.mu.Lock()
RecordLock(gr) ==
  /\ fn = "RecordRequest"
  /\ res.g[gr].pc = "out"
  /\ res.g[gr].done < Len(arg[gr])
  /\ LockFree(res.mu)
  /\ res' = [res EXCEPT !.mu = gr,
                        !.g[gr].pc = "load",
                        !.arrived = Append(@, CallOf(gr))]
  /\ called' = TRUE
  /\ UNCHANGED metricsRest

\* m.RequestCount++ : the read
RecordLoad(gr) ==
  /\ fn = "RecordRequest"
  /\ res.g[gr].pc = "load"
  /\ res' = [res EXCEPT !.g[gr].pc = "store",
                        !.g[gr].reg = res.m.RequestCount]
  /\ UNCHANGED <<called, metricsRest>>

\* m.RequestCount++ : the write
RecordStore(gr) ==
  /\ fn = "RecordRequest"
  /\ res.g[gr].pc = "store"
  /\ res' = [res EXCEPT !.g[gr].pc = "times",
                        !.m.RequestCount = res.g[gr].reg + 1]
  /\ UNCHANGED <<called, metricsRest>>

\* The response times, their average, and the endpoint's request count.
RecordTimes(gr) ==
  /\ fn = "RecordRequest"
  /\ res.g[gr].pc = "times"
  /\ LET kept == IF Len(res.m.ResponseTimes) >= KeepLast
                 THEN Tail(res.m.ResponseTimes)
                 ELSE res.m.ResponseTimes
         times == Append(kept, CallOf(gr).duration)
     IN res' = [res EXCEPT
                  !.g[gr].pc = "errors",
                  !.m.ResponseTimes = times,
                  !.m.AverageResponse =
                     IF Len(times) > 0 THEN Sum(times) \div Len(times) ELSE @,
                  !.m.stat.RequestCount = @ + 1]
  /\ UNCHANGED <<called, metricsRest>>

\* `if isError`, the endpoint's average, the store of the endpoint's
\* statistics and the deferred m.mu.Unlock().
RecordErrors(gr) ==
  /\ fn = "RecordRequest"
  /\ res.g[gr].pc = "errors"
  /\ LET isError == CallOf(gr).isError
         stat == res.m.stat
     IN res' = [res EXCEPT
                  !.mu = 0,
                  !.g[gr] = [OutOfCall EXCEPT !.done = res.g[gr].done + 1],
                  !.m.ErrorCount = IF isError THEN @ + 1 ELSE @,
                  !.m.stat.ErrorCount = IF isError THEN @ + 1 ELSE @,
                  !.m.stat.AverageResponse =
                     IF stat.RequestCount > 0
                     THEN (@ * (stat.RequestCount - 1) + CallOf(gr).duration)
                            \div stat.RequestCount
                     ELSE @]
  /\ UNCHANGED <<called, metricsRest>>

NextMetrics ==
  \E gr \in Goroutines :
    \/ RecordLock(gr)
    \/ RecordLoad(gr)
    \/ RecordStore(gr)
    \/ RecordTimes(gr)
    \/ RecordErrors(gr)

SpecMetrics == InitMetrics /\ [][NextMetrics]_vars

\* ------------------------------------------------------------------ rescan
\* Service.regenerateMetadata on a download directory.  A path is the
\* sequence of its components below the download path; a component is the
\* sequence of its pieces between underscores, with the marks of a leading
\* "terraform-provider-" and of its ending.
Component(prefixed, pieces, ending) ==
  [prefixed |-> prefixed, pieces |-> pieces, ending |-> ending]

Dir(name) == Component(FALSE, <<name>>, "")

\* terraform-provider-<name>_<version>_<os>_<arch>.zip
ArchiveName(name, version, os, arch) ==
  Component(TRUE, <<name, version, os, arch>>, ".zip")

\* GetProviderPath: every archive of a provider lies in the provider's folder.
GetProviderPath(namespace, name, filename) ==
  <<Dir("registry.terraform.io"), Dir(namespace), Dir(name), filename>>

ScanVersions == {"1.0", "2.0"}
ScanPlatforms == {<<"linux", "amd64">>, <<"darwin", "arm64">>}

\* The archives the downloader can have stored for the provider ns/aws.
StoredArchives ==
  {GetProviderPath("ns", "aws", ArchiveName("aws", v, pf[1], pf[2])) :
     v \in ScanVersions, pf \in ScanPlatforms}

\* What else a cycle leaves in the download directory: index.json, a
\* version document, the temp file of a broken download, the journal file.
OtherFiles ==
  {GetProviderPath("ns", "aws", Component(FALSE, <<"index">>, ".json")),
   GetProviderPath("ns", "aws", Component(FALSE, <<"1.0">>, ".json")),
   GetProviderPath("ns", "aws",
     Component(TRUE, <<"aws", "1.0", "linux", "amd64">>, ".zip.tmp")),
   <<Component(FALSE, <<".tf-mirror-metadata">>, ".json")>>}

\* IsProviderPath: five components or more, and an underscore in the name
\* of the file's folder.
IsProviderPath(path) ==
  IF Len(path) < 5 THEN FALSE
  ELSE Len(path[Len(path) - 1].pieces) >= 2

\* The updateMetadata call the walk makes for one file; <<>> when it makes
\* none.
ScannedTuple(path) ==
  LET filename == path[Len(path)]
      nameParts == filename.pieces
  IN IF /\ IsProviderPath(path)
        /\ filename.prefixed
        /\ filename.ending = ".zip"
        /\ Len(nameParts) >= 4
        /\ Len(path) >= 4
     THEN <<[namespace |-> path[Len(path) - 2].pieces[1],
             name |-> nameParts[1],
             version |-> nameParts[2],
             platform |-> <<nameParts[3], nameParts[4]>>]>>
     ELSE <<>>

\* The providers map after the walk: one entry per namespace/name, with
\* the versions and the platforms of its updateMetadata calls.
regenerateMetadata(disk) ==
  LET tuples == UNION {Range(ScannedTuple(path)) : path \in disk}
      keys == {<<t.namespace, t.name>> : t \in tuples}
  IN [key \in keys |->
        [Versions |-> {t.version : t \in {u \in tuples :
                                           <<u.namespace, u.name>> = key}},
         Platforms |-> {t.platform : t \in {u \in tuples :
                                             <<u.namespace, u.name>> = key}}]]

\* The journal a cycle leaves for the archives of `disk`.
JournalOf(disk) ==
  LET stored == disk \cap StoredArchives
  IN IF stored = {} THEN << >>
     ELSE [key \in {<<"ns", "aws">>} |->
             [Versions |-> {path[4].pieces[2] : path \in stored},
              Platforms |-> {<<path[4].pieces[3], path[4].pieces[4]>> :
                               path \in stored}]]

\* The rescan is run on a download directory and the journal of its
\* archives, or on a journal that was lost.
InitRescan ==
  /\ Configured({1}, {1}, {{}}, 0)
  /\ Constructed(EmptyStore)
  /\ unpublished = {}
  /\ fn = "regenerateMetadata"
  /\ arg \in SUBSET (StoredArchives \cup OtherFiles)
  /\ \E lost \in BOOLEAN :
       res = [providers |-> IF lost THEN << >> ELSE JournalOf(arg),
              before |-> << >>,
              file |-> << >>,
              runs |-> 0]
  /\ called = FALSE

\* regenerateMetadata: the map is emptied, filled by the walk and flushed.
CallRegenerateMetadata ==
  /\ fn = "regenerateMetadata"
  /\ res.runs < 2
  /\ res' = [providers |-> regenerateMetadata(arg),
             before |-> res.providers,
             file |-> regenerateMetadata(arg),
             runs |-> res.runs + 1]
  /\ called' = TRUE
  /\ UNCHANGED <<confVars, ctxVars, fn, arg, crashes, diskVars, journal, pool,
                 orchVars, histVars>>

NextRescan == CallRegenerateMetadata

SpecRescan == InitRescan /\ [][NextRescan]_vars

\* ------------------------------------------------------------- file writes
\* The code paths that put a file into the mirror store, step by step, next
\* to a reader of the final name.  A file is "absent", "empty" (created or
\* truncated), "partial", "old" (whole, from an earlier run) or "new".
FileWriters ==
  {"saveIndex", "GenerateIndexJSON", "downloadProviders", "saveMetadata",
   "metaWithBinaries", "downloadFileWithClient", "saveFile"}

\* saveFile alone creates <destPath>.tmp; every other writer opens the
\* final name with os.Create or os.WriteFile.
WritesTemp(writer) == writer = "saveFile"

\* io.Copy from a response body writes chunk after chunk; the encoders and
\* os.WriteFile hand one buffer to one write.
CopiesBody(writer) ==
  writer \in {"downloadProviders", "downloadFileWithClient", "saveFile"}

\* Planning and the tool download write only when fileExists says no.
WritesOnlyNew(writer) ==
  writer \in {"downloadProviders", "downloadFileWithClient"}

InitWrites ==
  /\ Configured({1}, {1}, {{}}, 0)
  /\ Constructed(EmptyStore)
  /\ unpublished = {}
  /\ fn \in FileWriters
  /\ \E before \in {"absent", "old"} :
       /\ WritesOnlyNew(fn) => before = "absent"
       /\ arg = [before |-> before]
       /\ res = [pc |-> "start", final |-> before, tmp |-> "absent",
                 seen |-> {}]
  /\ called = FALSE

writesRest ==
  UNCHANGED <<confVars, ctxVars, fn, arg, crashes, diskVars, journal, pool,
              orchVars, histVars>>

TargetOf(writer) == IF WritesTemp(writer) THEN "tmp" ELSE "final"

\* os.Create / os.WriteFile's open with O_TRUNC.
OsCreate ==
  /\ fn \in FileWriters
  /\ res.pc = "start"
  /\ res' = [res EXCEPT ![TargetOf(fn)] = "empty", !.pc = "open"]
  /\ called' = TRUE
  /\ writesRest

\* One chunk of io.Copy.
WriteChunk ==
  /\ fn \in FileWriters
  /\ res.pc = "open"
  /\ CopiesBody(fn)
  /\ res[TargetOf(fn)] = "empty"
  /\ res' = [res EXCEPT ![TargetOf(fn)] = "partial"]
  /\ UNCHANGED called
  /\ writesRest

\* The last write.
WriteAll ==
  /\ fn \in FileWriters
  /\ res.pc = "open"
  /\ res' = [res EXCEPT ![TargetOf(fn)] = "new", !.pc = "written"]
  /\ UNCHANGED called
  /\ writesRest

\* A write or a read of the body fails: what was written stays.
WriteFails ==
  /\ fn \in FileWriters
  /\ res.pc = "open"
  /\ \E short \in {res[TargetOf(fn)], "partial"} :
       res' = [res EXCEPT ![TargetOf(fn)] = short, !.pc = "failed"]
  /\ UNCHANGED called
  /\ writesRest

\* file.Close(); saveFile goes on to the rename.
CloseFile ==
  /\ fn \in FileWriters
  /\ res.pc = "written"
  /\ res' = [res EXCEPT !.pc = IF WritesTemp(fn) THEN "closed" ELSE "done"]
  /\ UNCHANGED called
  /\ writesRest

\* renameFile(tempPath, destPath).
RenameFile ==
  /\ fn \in FileWriters
  /\ res.pc = "closed"
  /\ res' = [res EXCEPT !.final = res.tmp, !.tmp = "absent", !.pc = "done"]
  /\ UNCHANGED called
  /\ writesRest

\* After a failure saveFile removes the temp file; the other writers log or
\* return the error.
ReturnError ==
  /\ fn \in FileWriters
  /\ res.pc = "failed"
  /\ res' = [res EXCEPT !.tmp = IF WritesTemp(fn) THEN "absent" ELSE res.tmp,
                        !.pc = "error"]
  /\ UNCHANGED called
  /\ writesRest

\* The process dies between two steps.
CrashWriting ==
  /\ fn \in FileWriters
  /\ res.pc \in {"open", "written", "closed", "failed"}
  /\ res' = [res EXCEPT !.pc = "crashed"]
  /\ UNCHANGED called
  /\ writesRest

\* Another process (the server, terraform) reads the final name.
ReadFinal ==
  /\ fn \in FileWriters
  /\ res.final \notin res.seen
  /\ res' = [res EXCEPT !.seen = res.seen \cup {res.final}]
  /\ UNCHANGED called
  /\ writesRest

NextWrites ==
  \/ OsCreate
  \/ WriteChunk
  \/ WriteAll
  \/ WriteFails
  \/ CloseFile
  \/ RenameFile
  \/ ReturnError
  \/ CrashWriting
  \/ ReadFinal

SpecWrites == InitWrites /\ [][NextWrites]_vars

\* ----------------------------------------------------------- binaries pass
\* The end of a cycle: the journal flush, the pass over the tool archives
\* of one tool, the journal written after it, and the next service start.
MaxPasses == 2

Tool == "consul"
ToolVersions == {<<"1", ".", "0", ".", "0">>, <<"1", ".", "1", ".", "0">>}
ToolPlatforms == {"linux_amd64", "darwin_arm64"}

\* What the releases page lists, in its order.
ToolListings ==
  {<<v>> : v \in ToolVersions}
    \cup {l \in ToolVersions \X ToolVersions : l[1] # l[2]}

\* SupportedPlatforms after the platform filter, in their order.
ToolPlatformLists == {<<"linux_amd64">>, <<"linux_amd64", "darwin_arm64">>}

ToolFiles == ToolVersions \X ToolPlatforms

\* The providers map the cycle leaves, which the pass does not touch.
ProvidersMaps == {JournalOf({}), JournalOf(StoredArchives)}

NoJournalFile ==
  [providers |-> JournalOf({}),
   binaries |-> [kind |-> "absent", value |-> {}],
   last_check |-> 0]

\* The metadata of a service just constructed.
FreshMetadata == [Providers |-> JournalOf({}), Binaries |-> <<>>, LastCheck |-> 0]

\* json.MarshalIndent of ProviderMetadata: the binaries slice is left out
\* when it is empty.
MarshalMetadata(m) ==
  [providers |-> m.Providers,
   binaries |-> IF m.Binaries = <<>>
                THEN [kind |-> "omitted", value |-> {}]
                ELSE [kind |-> "array", value |-> Range(m.Binaries)],
   last_check |-> m.LastCheck]

\* The encoding of metaWithBinaries: binaries is an object keyed by tool.
EncodeMetaWithBinaries(providers, serMap, now) ==
  [providers |-> providers,
   binaries |-> [kind |-> "object", value |-> serMap],
   last_check |-> now]

\* json.Unmarshal into ProviderMetadata: an object where the slice is
\* expected is a type error; that field is skipped, the others are decoded.
UnmarshalMetadata(file, into) ==
  [err |-> file.binaries.kind = "object",
   metadata |-> [Providers |-> file.providers,
                 Binaries |-> IF file.binaries.kind = "array"
                              THEN SetToSeq(file.binaries.value)
                              ELSE into.Binaries,
                 LastCheck |-> file.last_check]]

\* loadMetadata: no file is no error.
loadMetadata(file, into) ==
  IF file.binaries.kind = "absent"
  THEN [err |-> FALSE, metadata |-> into]
  ELSE UnmarshalMetadata(file, into)

\* The pairs of the two loops of DownloadHashiCorpBinaries, in their order.
RECURSIVE DownloadOrder(_, _)
DownloadOrder(versions, platforms) ==
  IF versions = <<>> THEN <<>>
  ELSE [k \in 1..Len(platforms) |-> <<Head(versions), platforms[k]>>]
         \o DownloadOrder(Tail(versions), platforms)

\* The object the service builds from the DownloadedBinary list: per tool
\* the union of the platforms and the union of the versions.
SerMap(downloaded) ==
  IF downloaded = {} THEN {}
  ELSE {[tool |-> Tool,
         platforms |-> {b.platform : b \in downloaded},
         versions |-> UNION {b.versions : b \in downloaded}]}

InitBinaries ==
  /\ Configured({1}, {1}, {{}}, 0)
  /\ Constructed(EmptyStore)
  /\ unpublished = {}
  /\ fn = "DownloadHashiCorpBinaries"
  /\ \E listing \in ToolListings, minVersion \in ToolVersions \cup {<<>>},
        platforms \in ToolPlatformLists, downloadBinaries \in BOOLEAN,
        providers \in ProvidersMaps, stored \in SUBSET ToolFiles :
       /\ \A f \in stored : f[1] \in Range(listing) /\ downloadBinaries
       /\ arg = [listing |-> listing, minVersion |-> minVersion,
                 platforms |-> platforms,
                 downloadBinaries |-> downloadBinaries]
       /\ res = [pc |-> "cycle",
                 pass |-> 1,
                 disk |-> [f \in ToolFiles |->
                             IF f \in stored THEN "whole" ELSE "absent"],
                 todo |-> <<>>,
                 binMap |-> {},
                 metadata |-> [FreshMetadata EXCEPT !.Providers = providers],
                 file |-> NoJournalFile,
                 written |-> NoJournalFile,
                 loadErr |-> FALSE]
  /\ called = FALSE

binariesRest ==
  UNCHANGED <<confVars, ctxVars, fn, arg, crashes, diskVars, journal, pool,
              orchVars, histVars>>

\* The end of the cycle: LastCheck is set and saveMetadata flushes.
FlushJournal ==
  /\ fn = "DownloadHashiCorpBinaries"
  /\ res.pc = "cycle"
  /\ LET m == [res.metadata EXCEPT !.LastCheck = res.pass]
     IN res' = [res EXCEPT
                  !.metadata = m,
                  !.file = MarshalMetadata(m),
                  !.written = IF arg.downloadBinaries THEN res.written
                              ELSE MarshalMetadata(m),
                  !.pc = IF arg.downloadBinaries THEN "fetch" ELSE "idle"]
  /\ called' = TRUE
  /\ binariesRest

\* fetchAvailableVersionsWithClient answers and FilterVersionsByMin cuts.
FetchAvailableVersions ==
  /\ fn = "DownloadHashiCorpBinaries"
  /\ res.pc = "fetch"
  /\ res' = [res EXCEPT
               !.todo = DownloadOrder(
                          FilterVersionsByMin(arg.listing, arg.minVersion),
                          arg.platforms),
               !.binMap = {},
               !.pc = "download"]
  /\ UNCHANGED called
  /\ binariesRest

\* The fetch fails: the tool is passed over.
FetchFails ==
  /\ fn = "DownloadHashiCorpBinaries"
  /\ res.pc = "fetch"
  /\ res' = [res EXCEPT !.todo = <<>>, !.binMap = {}, !.pc = "download"]
  /\ UNCHANGED called
  /\ binariesRest

\* One turn of the inner loop: the entry of the key is made, then the
\* archive is found on disk, or downloaded, or its download fails with
\* nothing or with a part of it under the final name.
DownloadBinary ==
  /\ fn = "DownloadHashiCorpBinaries"
  /\ res.pc = "download"
  /\ res.todo # <<>>
  /\ LET key == Head(res.todo)
         entry(versions) ==
           [platform |-> key[2], file |-> key, versions |-> versions]
     IN IF res.disk[key] # "absent"
        THEN res' = [res EXCEPT
                       !.binMap = @ \cup {entry({key[1]})},
                       !.todo = Tail(@)]
        ELSE \E outcome \in {"whole", "absent", "partial"} :
               res' = [res EXCEPT
                         !.disk[key] = outcome,
                         !.binMap = @ \cup {entry(IF outcome = "whole"
                                                  THEN {key[1]} ELSE {})},
                         !.todo = Tail(@)]
  /\ UNCHANGED called
  /\ binariesRest

\* The journal with the binaries object is written over the journal file.
WriteMetaWithBinaries ==
  /\ fn = "DownloadHashiCorpBinaries"
  /\ res.pc = "download"
  /\ res.todo = <<>>
  /\ LET meta == EncodeMetaWithBinaries(res.metadata.Providers,
                                        SerMap(res.binMap), res.pass)
     IN res' = [res EXCEPT
                  !.metadata.Binaries = <<>>,
                  !.file = meta,
                  !.written = meta,
                  !.pc = "idle"]
  /\ UNCHANGED called
  /\ binariesRest

\* The service is started again: NewService loads the journal file and
\* logs a load error; the next cycle runs.
Restart ==
  /\ fn = "DownloadHashiCorpBinaries"
  /\ res.pc = "idle"
  /\ res.pass < MaxPasses
  /\ LET loaded == loadMetadata(res.file, FreshMetadata)
     IN res' = [res EXCEPT
                  !.metadata = loaded.metadata,
                  !.loadErr = loaded.err,
                  !.pass = @ + 1,
                  !.pc = "cycle"]
  /\ UNCHANGED called
  /\ binariesRest

NextBinaries ==
  \/ FlushJournal
  \/ FetchAvailableVersions
  \/ FetchFails
  \/ DownloadBinary
  \/ WriteMetaWithBinaries
  \/ Restart

SpecBinaries == InitBinaries /\ [][NextBinaries]_vars

\* ------------------------------------------------------------ cycle steps
\* downloadProviders over two providers, from the choice of the providers
\* to its return, with the downloads left out: which providers are kept,
\* planned and indexed, whether the journal is flushed and the binaries
\* pass runs, and what is returned.
CycleProviders == <<"p1", "p2">>

\* A provider directory as GenerateIndexJSON finds it: "missing" (ReadDir
\* fails), "good", "unhashable" (an archive HashZip rejects), "notobject"
\* (a <version>.json whose content does not decode into an object).
ProviderDirs == {"missing", "good", "unhashable", "notobject"}

\* GenerateIndexJSON on a directory: "ok", "error" (returned), or "panic"
\* (the assignment into the nil map left by the failed decoding).
GenerateIndexOutcome(dir) ==
  CASE dir = "good" -> "ok"
    [] dir = "notobject" -> "panic"
    [] OTHER -> "error"

NewCycle(pass) ==
  [pc |-> "providers", pass |-> pass, kept |-> <<>>, planned |-> {},
   indexed |-> {}, next |-> 1, flushed |-> FALSE, flushErr |-> FALSE,
   lastCheck |-> 0, journalCheck |-> 0, binaries |-> FALSE, ret |-> "none"]

InitCycleSteps ==
  /\ Configured({1}, {1}, {{}}, 0)
  /\ Constructed(EmptyStore)
  /\ unpublished = {}
  /\ fn = "downloadProviders"
  /\ \E dirs \in [Range(CycleProviders) -> ProviderDirs],
        downloadBinaries \in BOOLEAN :
       arg = [dirs |-> dirs, downloadBinaries |-> downloadBinaries]
  /\ res = NewCycle(1)
  /\ called = FALSE

cycleRest ==
  UNCHANGED <<confVars, ctxVars, fn, arg, crashes, diskVars, journal, pool,
              orchVars, histVars>>

\* The providers of the cycle: the ones of the filter whose versions can be
\* fetched, or the ones discovery brings.
ChooseProviders ==
  /\ fn = "downloadProviders"
  /\ res.pc = "providers"
  /\ \E found \in SUBSET Range(CycleProviders) :
       /\ found # {}
       /\ res' = [res EXCEPT
                    !.kept = SelectSeq(CycleProviders, LAMBDA q : q \in found),
                    !.pc = "plan"]
  /\ called' = TRUE
  /\ cycleRest

\* No provider is left, or discovery fails: downloadProviders returns.
NoProviders ==
  /\ fn = "downloadProviders"
  /\ res.pc = "providers"
  /\ \E r \in {"nil", "err"} :
       res' = [res EXCEPT !.pc = "returned", !.ret = r]
  /\ called' = TRUE
  /\ cycleRest

\* The planning loop: a provider whose GetProviderVersions fails is passed
\* over.  The downloads follow and end.
PlanProviders ==
  /\ fn = "downloadProviders"
  /\ res.pc = "plan"
  /\ \E failing \in SUBSET Range(res.kept) :
       res' = [res EXCEPT !.planned = Range(res.kept) \ failing,
                          !.pc = "flush"]
  /\ UNCHANGED called
  /\ cycleRest

\* LastCheck is set and saveMetadata is called; its error is logged.
SaveJournal ==
  /\ fn = "downloadProviders"
  /\ res.pc = "flush"
  /\ \E failed \in BOOLEAN :
       res' = [res EXCEPT
                 !.lastCheck = res.pass,
                 !.flushed = TRUE,
                 !.flushErr = failed,
                 !.journalCheck = IF failed THEN @ ELSE res.pass,
                 !.pc = "index"]
  /\ UNCHANGED called
  /\ cycleRest

\* One turn of the loop over filteredProviders: GenerateIndexJSON, its
\* error logged; a panic is recovered by downloadProviders' deferred
\* function, which ends the cycle.
GenerateIndexOf ==
  /\ fn = "downloadProviders"
  /\ res.pc = "index"
  /\ res.next <= Len(res.kept)
  /\ LET provider == res.kept[res.next]
         outcome == GenerateIndexOutcome(arg.dirs[provider])
     IN res' = IF outcome = "panic"
               THEN [res EXCEPT !.pc = "returned", !.ret = "nil"]
               ELSE [res EXCEPT !.indexed = @ \cup {provider},
                                !.next = @ + 1]
  /\ UNCHANGED called
  /\ cycleRest

\* After the loop: the binaries pass and its journal write when
\* download-binaries is set; downloadProviders returns nil.
BinariesPass ==
  /\ fn = "downloadProviders"
  /\ res.pc = "index"
  /\ res.next > Len(res.kept)
  /\ res' = [res EXCEPT
               !.binaries = arg.downloadBinaries,
               !.journalCheck = IF arg.downloadBinaries THEN res.pass ELSE @,
               !.pc = "returned",
               !.ret = "nil"]
  /\ UNCHANGED called
  /\ cycleRest

\* StartWithContext logs a returned error; the next tick starts a cycle.
TickerTick ==
  /\ fn = "downloadProviders"
  /\ res.pc = "returned"
  /\ res.pass < MaxPasses
  /\ res' = [NewCycle(res.pass + 1) EXCEPT !.journalCheck = res.journalCheck]
  /\ UNCHANGED called
  /\ cycleRest

NextCycleSteps ==
  \/ ChooseProviders
  \/ NoProviders
  \/ PlanProviders
  \/ SaveJournal
  \/ GenerateIndexOf
  \/ BinariesPass
  \/ TickerTick

SpecCycleSteps == InitCycleSteps /\ [][NextCycleSteps]_vars

\* ------------------------------------------------------------------- claims
\* C1: at the end of a cycle, every job whose worker reported Ok in that
\* cycle has its archive under the final name and its version and platform
\* in the journal that the cycle saved.
C1_OkIsStoredAndRecorded ==
  [][Finish =>
       \A j \in Jobs :
         (reported[firstPool][j] = "Ok" \/ reported["R"][j] = "Ok") =>
           /\ fileExists(archive[j])
           /\ j[1] \in journalFile'.versions
           /\ j[2] \in journalFile'.platforms]_vars

\* C2: the collection loop of the first pass is over only when totalJobs
\* results have been received from the results channel.
C2_LoopEndsAfterAllResults ==
  (opc # "idle" /\ i = totalJobs) => resultsSent = totalJobs

\* C3: every job put on a jobs channel is taken by one worker only, is
\* answered at most once, and is in the end answered by one result on the
\* results channel, whether or not the orchestrator still receives.
C3_EveryJobOneResult ==
  /\ [](\A p \in Pools, j \in Jobs :
         /\ taken[p][j] <= 1
         /\ sent[p][j] <= taken[p][j]
         /\ Cardinality({x \in Workers : pool[p].w[x].job = j}) <= 1)
  /\ \A p \in Pools, j \in Jobs :
       (j \in Range(pool[p].jobs)) ~> (sent[p][j] = 1)

\* C3 witness: both jobs of a first pass have been answered and both results
\* lie in the channel after the orchestrator has left its collection loop.
C3_Witness ==
  /\ opc = "collect"
  /\ i = totalJobs
  /\ Len(pool[firstPool].results) = MaxPlatforms
  /\ \A j \in Jobs : taken[firstPool][j] = 1 /\ sent[firstPool][j] = 1

\* C4: the file under an archive's final name is never a partially written
\* one: it is absent or holds a complete body.
C4_FinalNameNeverPartial ==
  \A j \in Jobs : archive[j] # "partial"

\* C5: in a cycle that runs after a crash and whose planning saw the
\* version, a temp file found on disk belongs to a job the cycle planned:
\* an orphan is removed, or its download is tried again, whatever the
\* journal records.
C5_OrphanRemovedOrRetried ==
  (crashes > 0 /\ opc # "idle") =>
    \A j \in Jobs :
      (j[1] \in listed /\ fileExists(temp[j])) =>
        (j \in Range(pool[firstPool].jobs) \/ taken[firstPool][j] > 0)

C7_IndexesEqualDisk ==
  [][Finish =>
       LET onDisk(v) == {p \in Platforms : fileExists(archive[<<v, p>>])} IN
       /\ indexJson'.keys = {v \in Versions : onDisk(v) # {}}
       /\ \A v \in Versions :
            onDisk(v) # {} => versionJson'[v].keys = onDisk(v)]_vars

\* C8: in every state, each version index.json lists has an archive on disk
\* and each platform a version document lists has its archive on disk.
C8_IndexesReferToDisk ==
  /\ \A v \in indexJson.keys :
       \E p \in Platforms : fileExists(archive[<<v, p>>])
  /\ \A v \in Versions :
       \A p \in versionJson[v].keys : fileExists(archive[<<v, p>>])

\* C9: a downloaded file whose bytes do not hash to the advertised shasum
\* is removed, and the attempt does not end with the outcome Ok.
C9_MismatchIsRejected ==
  [][\A p \in Pools, x \in Workers :
       LET wk == pool[p].w[x] IN
       (/\ wk.pc = "verify"
        /\ wk.sh \notin {"", Sha(archive[wk.job])}
        /\ pool'[p].w[x].pc # "verify")
         => (archive'[wk.job] = "absent" /\ reported'[p][wk.job] # "Ok")]_vars

\* C10: once the collection loop is over, the retry batch holds exactly the
\* jobs whose first-pass result was a timeout failure, each of them once.
C10_RetryBatchIsTimeouts ==
  [][(StartRetry \/ (Finish /\ opc = "collect")) =>
       /\ \A j \in Jobs :
            (reported[firstPool][j] = "FailedTimeout") <=> (j \in Range(timeoutJobs))
       /\ Cardinality(Range(timeoutJobs)) = Len(timeoutJobs)]_vars

\* C11: when a cycle with a retry pass ends, no job whose retry result was a
\* success (Ok or Skipped) is left in the failed set.
C11_RetrySuccessLeavesFailedSet ==
  [][(Finish /\ opc = "retry") =>
       \A j \in Jobs :
         reported["R"][j] \in {"Ok", "Skipped"} => j \notin failedJobs]_vars

\* C12: while a cycle runs, no worker of an earlier cycle's first pass still
\* holds a job or has jobs queued.
C12_NoWorkOfEarlierCycle ==
  opc # "idle" => \A q \in Pools \ {firstPool, "R"} : Quiescent(q)

\* C13: StartWithContext returns only after its first cycle, what it
\* returns is the cancellation error, and once the context is cancelled it
\* does return.
C13_ReturnsCancellation ==
  /\ [](ret # "none" => (cycle >= 1 /\ ctxDone /\ ret = "canceled"))
  /\ (ctxDone ~> (ret = "canceled"))

\* C13 witness: the context was cancelled while the second cycle was running
\* and StartWithContext has returned after that cycle ended.
C13_Witness ==
  /\ ret = "canceled"
  /\ cycle = 2
  /\ opc = "idle"
  /\ journalFile.present

\* C14: once the context given to StartWithContext is cancelled, no worker
\* starts a download attempt and no attempt in flight goes on to store its
\* archive.
C14_NoAttemptAfterCancel ==
  [][ctxDone =>
       ~ \E p \in Pools, x \in Workers :
            BeginDownload(p, x) \/ CopyOk(p, x) \/ VerifyOk(p, x)]_vars

\* C15: a process that a signal stopped (no configuration or startup error
\* occurred: the service was built and ran its first cycle) ends with exit
\* code 0.
C15_SignalStopExitsZero ==
  (ret # "none" /\ ctxDone) => ExitCode(ret) = 0

\* C16: an invalid provider entry (its provider part is not one non-empty
\* namespace, one slash, one non-empty name) and an invalid platform token
\* (not one non-empty os, one underscore, one non-empty arch) make the
\* constructor fail, and no non-empty filter string is parsed without error
\* into a disabled filter.
C16_InvalidYieldsError ==
  LET EntriesOf(str) ==
        {TrimSpace(Split(str, ",")[k]) : k \in 1..Len(Split(str, ","))}
          \ {<<>>}
      Sides(str, c) ==
        /\ Len(SelectSeq(str, LAMBDA ch : ch = c)) = 1
        /\ Head(str) # c
        /\ str[Len(str)] # c
  IN (called /\ fn \in {"NewProviderFilter", "NewPlatformFilter"}) =>
       /\ (fn = "NewProviderFilter"
             /\ \E e \in EntriesOf(arg) : ~Sides(Split(e, ">")[1], "/"))
            => res.err
       /\ (fn = "NewPlatformFilter"
             /\ \E e \in EntriesOf(arg) : ~Sides(e, "_"))
            => res.err
       /\ (arg # <<>> /\ ~res.err) => IsEnabled(res)

\* C17: ParseBinaryFilter fails on an entry that does not hold exactly one
\* '>', and every entry of a list it returns has a non-empty tool and a
\* non-empty version.
C17_BothSidesRequired ==
  LET parts == Split(arg, ",")
      Malformed(k) ==
        /\ TrimSpace(parts[k]) # <<>>
        /\ Len(SelectSeq(parts[k], LAMBDA ch : ch = ">")) # 1
  IN (called /\ fn = "ParseBinaryFilter") =>
       /\ (\E k \in 1..Len(parts) : Malformed(k)) => res.err
       /\ ~res.err =>
            \A k \in 1..Len(res.list) :
              res.list[k].Tool # <<>> /\ res.list[k].MinVersion # <<>>

\* C18: with an empty or unparseable minimum FilterVersionsByMin returns
\* its input; otherwise it returns, in input order, exactly the candidates
\* that parse tolerantly to a version not below the minimum.
C18_FilterKeepsNotBelowMin ==
  LET V == arg.versions
      m == arg.minVersion
      Triple(str) == LET ver == ParseTolerant(str)
                     IN <<ver.Major, ver.Minor, ver.Patch>>
      NotBelow(a, b) ==
        \/ a[1] > b[1]
        \/ a[1] = b[1] /\ a[2] > b[2]
        \/ a[1] = b[1] /\ a[2] = b[2] /\ a[3] >= b[3]
      Kept(v) == ~ParseTolerant(v).err /\ NotBelow(Triple(v), Triple(m))
  IN (fn = "FilterVersionsByMin" /\ called) =>
       IF m = <<>> \/ ParseTolerant(m).err
       THEN res.out = V
       ELSE res.out = SelectSeq(V, Kept)

\* C18 witness: with a valid minimum, one of two candidates was kept, the
\* other one dropped because it does not parse.
C18_Witness ==
  /\ fn = "FilterVersionsByMin"
  /\ called
  /\ ~ParseTolerant(arg.minVersion).err
  /\ Len(arg.versions) = 2
  /\ Len(res.out) = 1
  /\ \E k \in 1..2 : ParseTolerant(arg.versions[k]).err

\* C19: filtering the result of FilterVersionsByMin again with the same
\* minimum returns that result.
C19_FilterIdempotent ==
  (fn = "FilterVersionsByMin" /\ called /\ res.calls = 2) =>
    res.again = res.out

\* C19 witness: the second filtering was given the one version that the
\* first one had kept, of two candidates and for a valid minimum.
C19_Witness ==
  /\ fn = "FilterVersionsByMin"
  /\ called
  /\ res.calls = 2
  /\ ~ParseTolerant(arg.minVersion).err
  /\ Len(arg.versions) = 2
  /\ Len(res.out) = 1

\* C20: after any calls of updateMetadata no version and no platform is
\* twice in the provider's entry, and a call with the job of the call before
\* leaves the versions and the platforms, taken as sets, as they were.
C20_JournalIsSet ==
  LET NoDuplicate(list) ==
        \A k, l \in 1..Len(list) : list[k] = list[l] => k = l
  IN fn = "updateMetadata" =>
       /\ NoDuplicate(res.info.Versions)
       /\ NoDuplicate(res.info.Platforms)
       /\ (res.calls >= 2 /\ arg[res.calls] = arg[res.calls - 1]) =>
            /\ Range(res.info.Versions) = Range(res.before.Versions)
            /\ Range(res.info.Platforms) = Range(res.before.Platforms)

\* C20 witness: updateMetadata was called twice in a row for the same job,
\* on an entry that already held another platform.
C20_Witness ==
  /\ fn = "updateMetadata"
  /\ res.calls >= 3
  /\ arg[res.calls] = arg[res.calls - 1]
  /\ Len(res.info.Platforms) = 2

\* C28: while the checksum predicate of an attempt has not yet been
\* evaluated on the file the attempt downloaded, the archive of its job is
\* not under its final name.
C28_FinalNameOnlyAfterChecksum ==
  \A p \in Pools, x \in Workers :
    pool[p].w[x].pc = "verify" => ~fileExists(archive[pool[p].w[x].job])

\* C29: at the step that starts the retry pool every first-pass job has had
\* its result received by the orchestrator and no first-pass worker holds a
\* job.
C29_RetryAfterFirstPassDrained ==
  [][StartRetry =>
       /\ resultsSent = totalJobs
       /\ pool[firstPool].results = <<>>
       /\ Quiescent(firstPool)]_vars

\* C30: with maxAttempts >= 1, a worker goes on to a further attempt of its
\* job only after an attempt that failed with a timeout and only while
\* attempts are left; it sends the job's result after attempt 1..maxAttempts,
\* and after a timeout failure only when that was attempt maxAttempts.
C30_AttemptPolicy ==
  [][\A p \in Pools, x \in Workers :
       LET wk == pool[p].w[x]
           after == pool'[p].w[x]
           n == IF wk.pc = "idle" THEN 1 ELSE wk.attempt
           goesOn == after.pc = "begin" /\ after.attempt = n + 1
           sends == /\ wk.pc # "idle" \/ after.pc # "idle"
                    /\ after.pc = "idle"
                    /\ Len(pool'[p].results) = Len(pool[p].results) + 1
           result == pool'[p].results[Len(pool'[p].results)]
       IN maxAttempts >= 1 =>
            /\ goesOn =>
                 /\ Outcome(after.err, FALSE) = "FailedTimeout"
                 /\ n + 1 <= maxAttempts
            /\ sends =>
                 /\ n >= 1 /\ n <= maxAttempts
                 /\ Outcome(result.err, result.skipped) = "FailedTimeout"
                      => n = maxAttempts]_vars

\* C24: GetWithContext makes at most maxRetries + 1 attempts, each further
\* one after a transport error or a status of 500 or more; the first
\* response below 500 is returned at once; the sleeps are of 1, 2, 4, ...
\* seconds, one after every failed attempt but the last.
C24_BoundedRetries ==
  LET Failed(k) == arg.answers[k].err \/ arg.answers[k].status >= 500
      Good == {k \in 1..Len(arg.answers) : ~Failed(k)}
  IN fn = "GetWithContext" =>
       /\ res.attempts <= arg.maxRetries + 1
       /\ \A k \in 1..(res.attempts - 1) : Failed(k)
       /\ \A k \in Good :
            res.attempts = k =>
              /\ called
              /\ res.ret = "resp"
              /\ res.last = arg.answers[k]
       /\ \A k \in 1..Len(res.sleeps) :
            res.sleeps[k] = IF k = 1 THEN 1 ELSE 2 * res.sleeps[k - 1]
       /\ Len(res.sleeps) <= res.attempts
       /\ called => Len(res.sleeps) = (IF res.attempts = 0 THEN 0
                                       ELSE res.attempts - 1)

\* C24 witness: two failed attempts, sleeps of 1 and 2 seconds, and a 404
\* returned by the third and last attempt.
C24_Witness ==
  /\ fn = "GetWithContext"
  /\ called
  /\ res.attempts = 3
  /\ res.sleeps = <<1, 2>>
  /\ res.ret = "resp"
  /\ res.last.status = 404

\* C25: whenever no RecordRequest is under way, RequestCount is the number
\* of calls made, ErrorCount the number of those with isError, ResponseTimes
\* the durations of the last min(n, 100) calls in their order, and
\* AverageResponse the integer mean of these.
C25_MetricsCountEveryCall ==
  LET n == Len(res.arrived)
      first == IF n > 100 THEN n - 100 + 1 ELSE 1
      recent == [k \in 1..(n - first + 1) |-> res.arrived[first + k - 1].duration]
      total(list) == LET RECURSIVE upTo(_)
                         upTo(k) == IF k = 0 THEN 0 ELSE list[k] + upTo(k - 1)
                     IN upTo(Len(list))
  IN (fn = "RecordRequest" /\ \A gr \in Goroutines : res.g[gr].pc = "out") =>
       /\ res.m.RequestCount = n
       /\ res.m.ErrorCount = Cardinality({k \in 1..n : res.arrived[k].isError})
       /\ res.m.ResponseTimes = recent
       /\ n > 0 => res.m.AverageResponse = total(recent) \div Len(recent)

\* C25 witness: both goroutines have recorded requests, more than 100 in
\* all, one of them an error that took longer.
C25_Witness ==
  /\ fn = "RecordRequest"
  /\ \A gr \in Goroutines : res.g[gr].pc = "out" /\ res.g[gr].done >= 1
  /\ res.m.RequestCount > 100
  /\ res.m.ErrorCount >= 1
  /\ res.m.ResponseTimes[100] = 3

\* C22: after the rescan the journal holds, for every archive of the
\* download directory, its version and its platform in the entry of its
\* provider, and holds nothing that no archive provides; a second rescan
\* changes nothing.
C22_RescanRebuildsJournal ==
  LET archives == arg \cap StoredArchives
      provided == {[key |-> <<path[2].pieces[1], path[3].pieces[1]>>,
                    version |-> path[4].pieces[2],
                    platform |-> <<path[4].pieces[3], path[4].pieces[4]>>] :
                     path \in archives}
  IN (fn = "regenerateMetadata" /\ res.runs >= 1) =>
       /\ \A a \in provided :
            /\ a.key \in DOMAIN res.providers
            /\ a.version \in res.providers[a.key].Versions
            /\ a.platform \in res.providers[a.key].Platforms
       /\ \A key \in DOMAIN res.providers :
            /\ \A v \in res.providers[key].Versions :
                 \E a \in provided : a.key = key /\ a.version = v
            /\ \A pf \in res.providers[key].Platforms :
                 \E a \in provided : a.key = key /\ a.platform = pf
       /\ res.runs = 2 => res.providers = res.before

\* C26: a reader never finds an empty or a truncated index.json or
\* <version>.json under its final name while the index generator or the
\* planning writes it.
C26_IndexFilesNeverTruncated ==
  fn \in {"saveIndex", "GenerateIndexJSON", "downloadProviders"} =>
    res.seen \cap {"empty", "partial"} = {}

\* C27: a crash or a failure while the journal is flushed, while the journal
\* is written after the binaries pass, or while a tool archive is
\* downloaded leaves no partially written file under the final name.
C27_NoPartialFileAfterFailure ==
  (/\ fn \in {"saveMetadata", "metaWithBinaries", "downloadFileWithClient"}
   /\ res.pc \in {"crashed", "error"}) =>
    res.final \notin {"empty", "partial"}

\* C21: the journal file written at the end of a cycle, with or without
\* the binaries object, is loaded without error at the next service start;
\* the loaded providers, binaries and last_check are the written ones; and
\* the next flush writes the same binaries again.
C21_JournalSurvivesRestart ==
  LET kept(binaries) == IF binaries.kind = "object" THEN binaries.value ELSE {}
  IN (fn = "DownloadHashiCorpBinaries" /\ res.pass >= 2) =>
       /\ res.pc = "cycle" =>
            /\ ~res.loadErr
            /\ res.metadata.Providers = res.written.providers
            /\ Range(res.metadata.Binaries) = kept(res.written.binaries)
            /\ res.metadata.LastCheck = res.written.last_check
       /\ res.pc = "fetch" =>
            kept(res.file.binaries) = kept(res.written.binaries)

\* C23: after a binaries pass the journal lists, for the tool, exactly the
\* versions not below the minimum that have an archive on disk and exactly
\* the platforms that have an archive on disk.
C23_BinariesAreWhatIsOnDisk ==
  LET onDisk == {f \in ToolFiles : res.disk[f] # "absent"}
      kept == {f \in onDisk :
                 Len(FilterVersionsByMin(<<f[1]>>, arg.minVersion)) = 1}
      entries == res.file.binaries.value
  IN (/\ fn = "DownloadHashiCorpBinaries"
      /\ res.pc = "idle"
      /\ arg.downloadBinaries) =>
       /\ kept # {} => \E e \in entries : e.tool = Tool
       /\ \A e \in entries :
            /\ e.versions = {f[1] : f \in kept}
            /\ e.platforms = {f[2] : f \in onDisk}

C32_PoolBounded ==
  LET busy == {qy \in Pools \X Workers : pool[qy[1]].w[qy[2]].pc # "idle"}
  IN /\ Cardinality(busy) <= maxConcurrent
     /\ \A j \in Jobs :
          Cardinality({qy \in busy : /\ pool[qy[1]].w[qy[2]].pc = "copy"
                                     /\ pool[qy[1]].w[qy[2]].job = j}) <= 1

\* C33: once the context of the request is done, GetWithContext (with one
\* retry or more configured) waits out no further sleep, makes no attempt after the one the context's error
\* ended, and returns an error that is the context's.
C33_CancelEndsRetries ==
  [][(fn = "GetWithContext" /\ arg.maxRetries >= 1 /\ ctxDone) =>
       /\ res'.sleeps = res.sleeps
       /\ res.last = CtxError => res'.attempts = res.attempts
       /\ res'.pc = "done" => (res'.ret = "err" /\ res'.last = CtxError)]_vars

\* C34: after a failed journal flush the cycle does nothing more: no index
\* is generated, no binaries pass runs, and downloadProviders returns the
\* error.
C34_FlushErrorAbortsCycle ==
  (fn = "downloadProviders" /\ res.flushErr) =>
    /\ res.indexed = {}
    /\ ~res.binaries
    /\ res.pc \in {"index", "returned"}
    /\ res.pc = "returned" => res.ret = "err"

\* C35: when downloadProviders returns after the journal flush, index
\* generation has run for every provider of the cycle, whatever it found in
\* the directories of the others, and the binaries pass has run if it is
\* configured.
C35_ProviderErrorsAreLocal ==
  (fn = "downloadProviders" /\ res.pc = "returned" /\ res.flushed) =>
    /\ res.indexed = Range(res.kept)
    /\ res.binaries = arg.downloadBinaries

\* C40: with download-binaries configured, a cycle that has returned has
\* flushed the journal with its last_check and has run the binaries pass.
C40_EveryCycleRunsBinaries ==
  (fn = "downloadProviders" /\ arg.downloadBinaries /\ res.pc = "returned") =>
    /\ res.flushed
    /\ res.lastCheck = res.pass
    /\ res.binaries

C37_FailedDownloadChangesNothing ==
  [][\A p \in Pools, x \in Workers :
       (CopyFail(p, x) \/ CopyRenamed(p, x)) =>
         /\ archive'[pool[p].w[x].job] = archive[pool[p].w[x].job]
         /\ temp'[pool[p].w[x].job] = "absent"]_vars

\* C38: whatever maxAttempts is, a worker reports Ok for a job only at the
\* end of an attempt that downloaded and verified the archive, so a job
\* reported Ok has its archive under the final name.
C38_OkOnlyAfterAnAttempt ==
  [][\A p \in Pools, j \in Jobs :
       (reported[p][j] # "Ok" /\ reported'[p][j] = "Ok") =>
         /\ \E x \in Workers : pool[p].w[x].pc = "verify" /\ pool[p].w[x].job = j
         /\ fileExists(archive'[j])]_vars

\* C39: once the context given to StartWithContext is cancelled, the loop
\* of StartWithContext starts no further cycle: after the first cycle no
\* call of downloadProviders begins in a state where the context is done,
\* a tick pending at that moment included.
C39_NoCycleAfterCancel ==
  [][(ctxDone /\ cycle >= 1) => cycle' = cycle]_vars

====
